---- MODULE Spec2Model ----
(***************************************************************************)
(* Verification model of stock-sniper's orchestration layer:               *)
(*   - the cron stock-check cycle        (app/api/cron/stock-check)        *)
(*   - the QStash auto-buy job and the autobuy-worker                      *)
(*   - the manual POST /api/watchlist/autobuy request                      *)
(*   - the Redis lock primitive          (lib/queue acquireLock)           *)
(*   - the checkout playbook store       (lib/autobuy/playbook-engine)     *)
(* Time is a clock in seconds that advances in steps of TickLen; a Redis   *)
(* key is present exactly while its expiry time lies in the future.        *)
(***************************************************************************)
EXTENDS Integers, Sequences, FiniteSets, TLC

\* ---------------------------------------------------------------- bounds
TickLen == 55
MaxTime == 165
MaxCycles == 2
MaxAttempts == 2
MaxManual == 1
MaxRuns == 5
MaxDispatch == 3
MaxChecks == 2

\* ------------------------------------------------------ program constants
MAX_ITEMS_PER_RUN == 50
CronMaxDuration == 60
WorkerMaxDuration == 120
CycleLockTtl == 55
ItemLockTtl == 30
BuyLockTtl == 180
DedupBucket == 60
JobRetries == 1
DefaultPollInterval == 300
SessionTtl == 300

\* ------------------------------------------------------------ the tenants
Users == {"u1", "u2"}
Items == {"i1", "i2"}
ItemOrder == <<"i1", "i2">>
ItemUser == [i \in Items |-> IF i = "i1" THEN "u1" ELSE "u2"]
ItemTcin == [i \in Items |-> "t1"]
\* max_price: 0 stands for null (no ceiling)
ItemMaxPrice == [i \in Items |-> IF i = "i1" THEN 15 ELSE 0]
ItemPollInterval == [i \in Items |-> 60]
ItemMode == [i \in Items |-> IF i = "i1" THEN "auto_buy" ELSE "notify_only"]
Tcins == {ItemTcin[i] : i \in Items}
Crons == {"c1", "c2"}
MainCrons == {"c1"}

NULL == -1
Prices == {10, 20}
Snapshots == {s \in [in_stock : BOOLEAN, price : Prices] : s.in_stock \/ s.price = 10}
NoSnapshot == [in_stock |-> FALSE, price |-> NULL]
EngineStatuses == {"success", "carted", "failed", "out_of_stock"}
Terminal == {"success", "failed", "cancelled"}

\* ------------------------------------------------------------- Redis keys
CycleKey == <<"cron:stock-check:lock", "-">>
ItemKey(i) == <<"cron:item", i>>
BuyKey(i) == <<"autobuy", i>>
LockProcs == {"p1", "p2", "p3"}
LockTtls == {30, 60}
Engines == {"e1", "e2"}
Retailers == {"target", "walmart"}
TestKeys == {<<"lock:stock-check", "i1">>}
Dispatchers == {"d1", "d2", "d3"}
UserTier == [u \in Users |-> IF u = "u1" THEN "pro" ELSE "premium"]
\* Date.now() of two dispatches, in milliseconds
DedupTimes == {0, 1, 999, 59999, 60000, 60001}
\* inputs of the due rule: last_checked_at and the clock in milliseconds
DueLasts == {NULL, 0, 1000, 60000}
DueIntervals == {30, 60, 300}
DueNows == {60000, 61000, 299999, 300000, 300001, 301000, 360000}
\* steps of a playbook with what the page does to them
ReplaySteps ==
  {[action |-> "goto", optional |-> FALSE, ok |-> TRUE],
   [action |-> "click", optional |-> FALSE, ok |-> TRUE],
   [action |-> "click", optional |-> TRUE, ok |-> FALSE],
   [action |-> "click", optional |-> FALSE, ok |-> FALSE],
   [action |-> "dismiss_popup", optional |-> FALSE, ok |-> TRUE],
   [action |-> "dismiss_popup", optional |-> FALSE, ok |-> FALSE],
   [action |-> "check_url", optional |-> FALSE, ok |-> FALSE]}
ReplayLen == 5
\* what a Redsky endpoint answers, and what the product page holds
ApiAnswers == {"fail", "price_only", "in_stock", "out_of_stock"}
HtmlAnswers == {"fail", "ld_price_only", "meta_price_only"}
Price1999 == 1999
\* the due rows fairOrder is built from: per tenant a number of rows, the
\* order in which the select returns them, and their last_checked_at
FairUsers == <<"u1", "u2", "u3">>
FairCounts == {0, 1, 20, 30, 50}
FairLayouts == {"grouped", "reversed", "split"}
FairLasts == {"oldest_first", "newest_first", "never_checked_last"}
\* repeated cycles: 30 rows of u1, 21 rows of u2, checked every 60 s, and the
\* cron schedule "* * * * *"
PoolCounts == <<30, 21>>
PoolInterval == 60
CycleSeconds == 60
Keys == {CycleKey} \cup {ItemKey(i) : i \in Items} \cup {BuyKey(i) : i \in Items} \cup TestKeys

VARIABLES
  now,        \* wall clock, seconds
  redis,      \* key -> expiry time; 0 = key absent
  items,      \* watchlist_items rows
  creds,      \* users with a retailer_credentials row
  attempts,   \* purchase_attempts rows, in insertion order
  jobs,       \* QStash auto-buy messages, in publish order
  cron,       \* the cron stock-check invocations
  cycles,     \* number of cron invocations that acquired the cycle lock
  manual,     \* the manual auto-buy request
  manuals,    \* number of manual requests made
  lockp,      \* callers of acquireLock / releaseLock
  grants,     \* key -> callers answered since the key was last absent: won, lost
  playbooks,  \* checkout_playbooks rows, in insertion order
  eng,        \* executeAutoBuy calls, as far as they touch the playbook store
  consec,     \* playbook id -> failures recorded since the last recorded success
  runs,       \* number of executeAutoBuy calls started
  present,    \* watchlist_items rows that exist
  acct,       \* watchlist and credentials requests of the tenants
  schedule,   \* TRUE while the QStash stock-check cron schedule exists
  sessions,   \* Redis `sessions:<user>` counters: value and expiry time
  disp,       \* dispatchAutoBuy calls of the webhook scheduler path
  dueCheck,   \* one evaluation of the due rule: inputs and both answers
  replay,     \* one replayPlaybook call: the steps and the returned value
  resolver,   \* one checkTargetStock call: the sources and the outcome
  call,       \* one executeAutoBuy call, step by step
  fair,       \* one construction of fairOrder: the due rows and the result
  pool,       \* repeated cycles over more due rows than one cycle takes
  dedup,      \* two auto-buy dispatches of one item: the times and the keys
  activity    \* activity_log rows of type error per item, and the checks that failed

vars == <<now, redis, items, creds, attempts, jobs, cron, cycles, manual, manuals,
          lockp, grants, playbooks, eng, consec, runs,
          present, acct, schedule, sessions, disp, dueCheck, replay, resolver, call, fair, pool, dedup, activity>>

schedVars == <<items, creds, attempts, jobs, cron, cycles, manual, manuals>>
lockVars == <<lockp, grants>>
pbVars == <<playbooks, eng, consec, runs>>
acctVars == <<present, acct, schedule>>
quotaVars == <<sessions, disp>>
fnVars == <<dueCheck, replay, resolver, call, fair, pool, dedup, activity>>
extVars == <<acctVars, quotaVars, fnVars>>

\* -------------------------------------------------------- the Redis store
KeyExists(store, k) == store[k] > now

\* SET key value NX EX ttl without the NX: the key is overwritten
SetNxEx_overwrite(store, k, ttl) ==
  [ok |-> TRUE, store |-> [store EXCEPT ![k] = now + ttl]]

\* SET key value NX EX ttl: one atomic command at the Redis server
SetNxEx(store, k, ttl) ==
  IF KeyExists(store, k)
    THEN [ok |-> FALSE, store |-> store]
    ELSE [ok |-> TRUE, store |-> [store EXCEPT ![k] = now + ttl]]

Del(store, k) == [store EXCEPT ![k] = 0]

Expire(store, t) == [k \in Keys |-> IF store[k] <= t THEN 0 ELSE store[k]]

\* -------------------------------------------------------- cron: selection
\* route.ts 77-82, the filter callback: times in milliseconds, the interval
\* in seconds
filterDue(lastCheck, poll_interval_seconds, nowMs) ==
  \/ lastCheck = NULL
  \/ nowMs - lastCheck >=
       (IF poll_interval_seconds = 0 THEN DefaultPollInterval ELSE poll_interval_seconds) * 1000

IsDue(i) ==
  filterDue(IF items[i].last_checked_at = NULL THEN NULL ELSE items[i].last_checked_at * 1000,
            ItemPollInterval[i], now * 1000)

\* get_items_due_for_polling, the where clause:
\* `last_checked_at is null or last_checked_at + interval < now()`
get_items_due_for_polling(lastCheck, poll_interval_seconds, nowMs) ==
  \/ lastCheck = NULL
  \/ lastCheck + poll_interval_seconds * 1000 < nowMs

DueItems == SelectSeq(ItemOrder, IsDue)

\* route.ts 89-97: the tenants in the order of their first due row; `user_id`
\* gives the tenant of a row
UsersOf(s, user_id) ==
  LET first == {k \in 1..Len(s) : \A m \in 1..(k - 1) : user_id[s[m]] # user_id[s[k]]}
      nth(j) == CHOOSE k \in first : Cardinality({m \in first : m < k}) = j - 1
  IN [j \in 1..Cardinality(first) |-> user_id[s[nth(j)]]]

UserQueue(s, u, user_id) == SelectSeq(s, LAMBDA i : user_id[i] = u)

Min(a, b) == IF a < b THEN a ELSE b

RECURSIVE FairInner(_, _, _, _, _, _)
FairInner(due, user_id, us, q, idx, acc) ==
  IF q > Len(us) THEN acc
  ELSE LET queue == UserQueue(due, us[q], user_id)
       IN IF idx <= Len(queue)
            THEN LET acc2 == Append(acc, queue[idx])
                 IN IF Len(acc2) >= MAX_ITEMS_PER_RUN THEN acc2
                    ELSE FairInner(due, user_id, us, q + 1, idx, acc2)
            ELSE FairInner(due, user_id, us, q + 1, idx, acc)

RECURSIVE FairOuter(_, _, _, _, _)
FairOuter(due, user_id, us, idx, acc) ==
  IF Len(acc) >= Min(Len(due), MAX_ITEMS_PER_RUN) THEN acc
  ELSE LET acc2 == FairInner(due, user_id, us, 1, idx, acc)
       IN IF acc2 = acc THEN acc ELSE FairOuter(due, user_id, us, idx + 1, acc2)

\* the first rows of the select, with no interleaving
fairOrder_firstRows(dueItems, user_id) ==
  SubSeq(dueItems, 1, Min(Len(dueItems), MAX_ITEMS_PER_RUN))

\* route.ts 88-110: fairOrder, built from the due rows in the order the
\* select returned them
fairOrder(dueItems, user_id) == FairOuter(dueItems, user_id, UsersOf(dueItems, user_id), 1, <<>>)

FairOrder(due) == fairOrder(due, ItemUser)

\* ----------------------------------------------------------- initial state
IdleCron == [pc |-> "idle", start |-> 0, order |-> <<>>, idx |-> 0,
             modes |-> [i \in Items |-> "notify_only"],
             cache |-> [t \in Tcins |-> NoSnapshot],
             resolved |-> [t \in Tcins |-> 0],
             errors |-> 0,
             bought |-> {}]
IdleManual == [pc |-> "idle", item |-> "i1", attempt |-> 0, start |-> 0]
IdleLockp == [pc |-> "idle", key |-> CycleKey, ttl |-> 0, ok |-> FALSE, held |-> FALSE]
NoGrants == [won |-> {}, lost |-> {}]
IdleEngine == [pc |-> "idle", retailer |-> "target", id |-> 0, tmp |-> 0, before |-> {}]

IdleAcct == [pc |-> "idle", item |-> "i1", mode |-> "notify_only"]
NoSessions == [n |-> 0, exp |-> 0]
IdleDisp == [pc |-> "idle", item |-> "i1", seen |-> 0]

IdleDue == [pc |-> "idle", last |-> NULL, interval |-> 300, now |-> 0,
            cron |-> FALSE, sql |-> FALSE]
NoStockResult == [in_stock |-> FALSE, price |-> NULL, raw_status |-> ""]
IdleReplay == [pc |-> "idle", steps |-> <<>>,
               out |-> [success |-> FALSE, failedAt |-> NULL, steps_completed |-> <<>>,
                        ran |-> <<>>]]
\* an executeAutoBuy call: `placed` counts the clicks on "Place your order",
\* `fails` the recordPlaybookFailure calls, `result` is the returned status
IdleCall == [pc |-> "idle", playbook |-> FALSE, cvv |-> FALSE, idx |-> 0, placed |-> 0,
             replayed |-> "no", confirmed |-> FALSE, fails |-> 0, agent |-> FALSE,
             saved |-> FALSE, result |-> "none", used_playbook |-> FALSE]
IdleFair == [pc |-> "idle", user_id |-> <<>>, last |-> <<>>, order |-> <<>>]
IdlePool == [pc |-> "idle", since |-> <<>>, due |-> <<>>, idx |-> 0, q |-> 0,
             added |-> FALSE, order |-> <<>>, pos |-> 0]
IdleDedup == [pc |-> "idle", item |-> "i1", t1 |-> 0, t2 |-> 0, cron |-> <<>>, queue |-> <<>>]
\* `errors` counts the activity_log rows of type error of an item, `failed`
\* the resolutions of the item that threw outside the cron route (history),
\* `checks` the manual and webhook checks made
NoActivity == [errors |-> [i \in Items |-> 0], failed |-> [i \in Items |-> 0], checks |-> 0]
IdleResolver == [pc |-> "idle", pdp |-> <<>>, fulfillment |-> <<>>, html |-> "fail",
                 threw |-> FALSE, out |-> NoStockResult,
                 cronThrew |-> FALSE, cronOut |-> NoStockResult]

InitCore ==
  /\ now = 0
  /\ redis = [k \in Keys |-> 0]
  /\ items = [i \in Items |-> [mode |-> ItemMode[i], last_checked_at |-> NULL,
                               last_status |-> "unknown", last_price |-> NULL]]
  /\ creds = Users
  /\ attempts = <<>>
  /\ jobs = <<>>
  /\ cron = [c \in Crons |-> IdleCron]
  /\ cycles = 0
  /\ manual = IdleManual
  /\ manuals = 0
  /\ lockp = [p \in LockProcs |-> IdleLockp]
  /\ grants = [k \in Keys |-> NoGrants]
  /\ playbooks = <<>>
  /\ eng = [e \in Engines |-> IdleEngine]
  /\ consec = [id \in 1..MaxRuns |-> 0]
  /\ runs = 0
  /\ present = Items
  /\ acct = [u \in Users |-> IdleAcct]
  /\ schedule = TRUE
  /\ sessions = [u \in Users |-> NoSessions]
  /\ disp = [d \in Dispatchers |-> IdleDisp]

Init ==
  /\ InitCore
  /\ dueCheck = IdleDue
  /\ replay = IdleReplay
  /\ resolver = IdleResolver
  /\ call = IdleCall
  /\ fair = IdleFair
  /\ pool = IdlePool
  /\ dedup = IdleDedup
  /\ activity = NoActivity

\* ------------------------------------------------------ cron: the handler
CronAlive(c) == cron[c].pc # "idle" /\ now < cron[c].start + CronMaxDuration

CurItem(c) == cron[c].order[cron[c].idx]

\* the rest of the loop is abandoned
Advance_abort(rec) == [rec EXCEPT !.pc = "finish"]

\* next iteration of `for (const item of fairOrder)`, or the end of the loop
Advance(rec) ==
  IF rec.idx + 1 > Len(rec.order)
    THEN [rec EXCEPT !.pc = "finish"]
    ELSE [rec EXCEPT !.pc = "itemlock", !.idx = rec.idx + 1]

\* route.ts 52-59: acquire the cycle lock or return skipped
CronStart(c) ==
  /\ cron[c].pc = "idle"
  /\ cycles < MaxCycles
  /\ LET r == SetNxEx(redis, CycleKey, CycleLockTtl)
     IN IF r.ok
          THEN /\ redis' = r.store
               /\ cron' = [cron EXCEPT ![c] = [IdleCron EXCEPT !.pc = "select", !.start = now]]
               /\ cycles' = cycles + 1
          ELSE UNCHANGED <<redis, cron, cycles>>
  /\ UNCHANGED <<now, items, creds, attempts, jobs, manual, manuals>>
  /\ UNCHANGED <<lockVars, pbVars, extVars>>

\* route.ts 64-110: read the active items, keep the due ones, build fairOrder;
\* the early returns run the finally block, which deletes the cycle lock
\* the items that have a purchase attempt with status success; a cycle notes
\* them in `bought` when it selects its rows (history, not read by the code)
Bought == {i \in Items : \E a \in 1..Len(attempts) :
                           attempts[a].item = i /\ attempts[a].status = "success"}

CronSelect(c) ==
  /\ cron[c].pc = "select"
  /\ CronAlive(c)
  /\ IF DueItems = <<>>
       THEN /\ cron' = [cron EXCEPT ![c] = IdleCron]
            /\ redis' = Del(redis, CycleKey)
       ELSE /\ cron' = [cron EXCEPT ![c] = [@ EXCEPT !.pc = "itemlock",
                                                      !.order = FairOrder(DueItems),
                                                      !.idx = 1,
                                                      !.modes = [i \in Items |-> items[i].mode],
                                                      !.bought = Bought]]
            /\ UNCHANGED redis
  /\ UNCHANGED <<now, items, creds, attempts, jobs, cycles, manual, manuals>>
  /\ UNCHANGED <<lockVars, pbVars, extVars>>

\* route.ts 65-73: the query fails or returns no active rows; the early
\* return runs the finally block
CronNoItems(c) ==
  /\ cron[c].pc = "select"
  /\ CronAlive(c)
  /\ cron' = [cron EXCEPT ![c] = IdleCron]
  /\ redis' = Del(redis, CycleKey)
  /\ UNCHANGED <<now, items, creds, attempts, jobs, cycles, manual, manuals>>
  /\ UNCHANGED <<lockVars, pbVars, extVars>>

\* route.ts 210-216: an exception outside the per-item try block is caught
\* by the outer catch, which answers 500; the finally block runs
CronFatal(c) ==
  /\ cron[c].pc \in {"select", "finish"}
  /\ CronAlive(c)
  /\ cron' = [cron EXCEPT ![c] = IdleCron]
  /\ redis' = Del(redis, CycleKey)
  /\ UNCHANGED <<now, items, creds, attempts, jobs, cycles, manual, manuals>>
  /\ UNCHANGED <<lockVars, pbVars, extVars>>

\* route.ts 127-131: per-item lock, `continue` when it is taken
CronItemLock(c) ==
  /\ cron[c].pc = "itemlock"
  /\ CronAlive(c)
  /\ LET r == SetNxEx(redis, ItemKey(CurItem(c)), ItemLockTtl)
     IN /\ redis' = r.store
        /\ cron' = [cron EXCEPT ![c] = IF r.ok THEN [@ EXCEPT !.pc = "resolve"] ELSE Advance(@)]
  /\ UNCHANGED <<now, items, creds, attempts, jobs, cycles, manual, manuals>>
  /\ UNCHANGED <<lockVars, pbVars, extVars>>

\* the resolver is called for every item, whatever the cycle has cached
NeedsResolve_always(cache, t) == TRUE

\* route.ts 134-135: `checkedTcins.get(tcin)` found nothing
NeedsResolve(cache, t) == cache[t] = NoSnapshot

\* route.ts 133-171: resolve (or reuse the cycle's cached snapshot), persist;
\* a throwing resolver leaves the item untouched (catch at 195-197)
CronResolve(c) ==
  /\ cron[c].pc = "resolve"
  /\ CronAlive(c)
  /\ LET i == CurItem(c)
         t == ItemTcin[i]
         fresh == NeedsResolve(cron[c].cache, t)
     IN \E fetched \in Snapshots \cup {NoSnapshot} :
          /\ ~fresh => fetched = cron[c].cache[t]
          /\ IF fetched = NoSnapshot
               THEN /\ cron' = [cron EXCEPT ![c] = Advance([@ EXCEPT !.errors = @ + 1])]
                    /\ UNCHANGED items
               ELSE /\ items' = [items EXCEPT ![i] =
                          [@ EXCEPT !.last_checked_at = now,
                                    !.last_status = IF fetched.in_stock THEN "in_stock" ELSE "out_of_stock",
                                    !.last_price = fetched.price]]
                    /\ cron' = [cron EXCEPT ![c] =
                          LET rec == [@ EXCEPT !.cache = [@ EXCEPT ![t] = fetched],
                                               !.resolved = [@ EXCEPT ![t] = IF fresh THEN @ + 1 ELSE @]]
                          IN IF fetched.in_stock /\ rec.modes[i] = "auto_buy"
                               THEN [rec EXCEPT !.pc = "buylock"]
                               ELSE Advance(rec)]
  /\ UNCHANGED <<now, redis, creds, attempts, jobs, cycles, manual, manuals>>
  /\ UNCHANGED <<lockVars, pbVars, extVars>>

\* route.ts 174-181: the purchase lock, `continue` when it is taken
CronBuyLock(c) ==
  /\ cron[c].pc = "buylock"
  /\ CronAlive(c)
  /\ LET r == SetNxEx(redis, BuyKey(CurItem(c)), BuyLockTtl)
     IN /\ redis' = r.store
        /\ cron' = [cron EXCEPT ![c] = IF r.ok THEN [@ EXCEPT !.pc = "trigger"] ELSE Advance(@)]
  /\ UNCHANGED <<now, items, creds, attempts, jobs, cycles, manual, manuals>>
  /\ UNCHANGED <<lockVars, pbVars, extVars>>

DedupId(i) == <<i, now \div DedupBucket>>

\* the new purchase_attempts row. `logged` is the status named by the latest
\* activity_log row written about the attempt: the scheduler paths insert
\* stock_found and the manual route auto_buy_started around the insert
NewAttempt(i, src, snap) ==
  [item |-> i, status |-> "detected", reason |-> "", src |-> src,
   in_stock |-> snap.in_stock, price |-> snap.price, logged |-> "detected"]

NewJob(i, a) ==
  [item |-> i, attempt |-> a, dedup |-> DedupId(i), state |-> "queued",
   start |-> 0, deliveries |-> 0, execs |-> 0]

\* route.ts 183-190 and triggerAutoBuy 221-261: without credentials return
\* silently; otherwise insert the attempt and publish the job. A publish that
\* throws is caught by the caller, which deletes the purchase lock. QStash
\* drops a message whose deduplicationId it has already seen.
CronTrigger(c) ==
  /\ cron[c].pc = "trigger"
  /\ CronAlive(c)
  /\ LET i == CurItem(c)
     IN IF ItemUser[i] \notin creds
          THEN /\ cron' = [cron EXCEPT ![c] = Advance(@)]
               /\ UNCHANGED <<redis, attempts, jobs>>
          ELSE /\ Len(attempts) < MaxAttempts
               /\ attempts' = Append(attempts, NewAttempt(i, "cron", cron[c].cache[ItemTcin[i]]))
               /\ \E published \in BOOLEAN :
                    IF published
                      THEN /\ jobs' = IF \E j \in 1..Len(jobs) : jobs[j].dedup = DedupId(i)
                                        THEN jobs
                                        ELSE Append(jobs, NewJob(i, Len(attempts) + 1))
                           /\ cron' = [cron EXCEPT ![c] = Advance(@)]
                           /\ UNCHANGED redis
                      ELSE /\ redis' = Del(redis, BuyKey(i))
                           /\ cron' = [cron EXCEPT ![c] = Advance([@ EXCEPT !.errors = @ + 1])]
                           /\ UNCHANGED jobs
  /\ UNCHANGED <<now, items, creds, cycles, manual, manuals>>
  /\ UNCHANGED <<lockVars, pbVars, extVars>>

\* the handler answers without deleting the cycle lock
CronFinish_keepLock(c) ==
  /\ cron[c].pc = "finish"
  /\ CronAlive(c)
  /\ cron' = [cron EXCEPT ![c] = IdleCron]
  /\ UNCHANGED <<now, redis, items, creds, attempts, jobs, cycles, manual, manuals>>
  /\ UNCHANGED <<lockVars, pbVars, extVars>>

\* route.ts 200-216: the response and the finally block
CronFinish(c) ==
  /\ cron[c].pc = "finish"
  /\ CronAlive(c)
  /\ cron' = [cron EXCEPT ![c] = IdleCron]
  /\ redis' = Del(redis, CycleKey)
  /\ UNCHANGED <<now, items, creds, attempts, jobs, cycles, manual, manuals>>
  /\ UNCHANGED <<lockVars, pbVars, extVars>>

\* route.ts 17: the platform ends an invocation at maxDuration; nothing of
\* the handler runs after that, the finally block included
CronTimeout(c) ==
  /\ cron[c].pc # "idle"
  /\ now >= cron[c].start + CronMaxDuration
  /\ cron' = [cron EXCEPT ![c] = IdleCron]
  /\ UNCHANGED <<now, redis, items, creds, attempts, jobs, cycles, manual, manuals>>
  /\ UNCHANGED <<lockVars, pbVars, extVars>>

\* ------------------------------------------------- the autobuy-worker
\* updateAttempt (route.ts 498-516): an unconditional update by id
updateAttempt(rows, a, status, reason) ==
  [rows EXCEPT ![a] = [@ EXCEPT !.status = status, !.reason = reason]]

\* route.ts 474-486 / autobuy/route.ts 156-173: the activity_log row about
\* the result just written to the attempt
logResult(rows, a) == [rows EXCEPT ![a] = [@ EXCEPT !.logged = rows[a].status]]

\* route.ts 465-469 / autobuy/route.ts 137-142: engine status to row status
DbStatus(st) == IF st = "success" THEN "success" ELSE IF st = "carted" THEN "carted" ELSE "failed"

\* a delivery that ended without a 2xx answer is retried while retries remain
AfterFailure(job) ==
  [job EXCEPT !.state = IF job.deliveries < 1 + JobRetries THEN "queued" ELSE "dead"]

\* QStash delivers the message: route.ts 386-463. Without a credential row
\* the attempt is marked failed and the answer is 400; otherwise
\* executeAutoBuy starts.
WorkerDeliver(j) ==
  /\ j \in 1..Len(jobs)
  /\ jobs[j].state = "queued"
  /\ LET job == [jobs[j] EXCEPT !.deliveries = @ + 1]
     IN IF ItemUser[job.item] \notin creds
          THEN /\ attempts' = updateAttempt(attempts, job.attempt, "failed", "No credentials saved")
               /\ jobs' = [jobs EXCEPT ![j] = AfterFailure(job)]
          ELSE /\ jobs' = [jobs EXCEPT ![j] = [job EXCEPT !.state = "exec", !.start = now,
                                                           !.execs = @ + 1]]
               /\ UNCHANGED attempts
  /\ UNCHANGED <<now, redis, items, creds, cron, cycles, manual, manuals>>
  /\ UNCHANGED <<lockVars, pbVars, extVars>>

\* route.ts 432-448: the stored credential cannot be decrypted; the attempt
\* is marked failed and the answer is 500
WorkerDecryptFail(j) ==
  /\ j \in 1..Len(jobs)
  /\ jobs[j].state = "queued"
  /\ ItemUser[jobs[j].item] \in creds
  /\ attempts' = updateAttempt(attempts, jobs[j].attempt, "failed", "Failed to decrypt credentials")
  /\ jobs' = [jobs EXCEPT ![j] = AfterFailure([@ EXCEPT !.deliveries = @ + 1])]
  /\ UNCHANGED <<now, redis, items, creds, cron, cycles, manual, manuals>>
  /\ UNCHANGED <<lockVars, pbVars, extVars>>

WorkerAlive(j) == now < jobs[j].start + WorkerMaxDuration

\* route.ts 453-471: executeAutoBuy returns and the attempt row is updated
WorkerExecReturn(j) ==
  /\ j \in 1..Len(jobs)
  /\ jobs[j].state = "exec"
  /\ WorkerAlive(j)
  /\ \E st \in EngineStatuses :
       attempts' = updateAttempt(attempts, jobs[j].attempt, DbStatus(st),
                                 IF st = "success" THEN "" ELSE "reason")
  /\ jobs' = [jobs EXCEPT ![j] = [@ EXCEPT !.state = "log"]]
  /\ UNCHANGED <<now, redis, items, creds, cron, cycles, manual, manuals>>
  /\ UNCHANGED <<lockVars, pbVars, extVars>>

\* route.ts 473-490: the activity-log insert and the 200 answer
WorkerRespond(j) ==
  /\ j \in 1..Len(jobs)
  /\ jobs[j].state = "log"
  /\ WorkerAlive(j)
  /\ jobs' = [jobs EXCEPT ![j] = [@ EXCEPT !.state = "done"]]
  /\ attempts' = logResult(attempts, jobs[j].attempt)
  /\ UNCHANGED <<now, redis, items, creds, cron, cycles, manual, manuals>>
  /\ UNCHANGED <<lockVars, pbVars, extVars>>

\* route.ts 353: the invocation is ended at maxDuration before it answered
WorkerTimeout(j) ==
  /\ j \in 1..Len(jobs)
  /\ jobs[j].state \in {"exec", "log"}
  /\ ~WorkerAlive(j)
  /\ jobs' = [jobs EXCEPT ![j] = AfterFailure(@)]
  /\ UNCHANGED <<now, redis, items, creds, attempts, cron, cycles, manual, manuals>>
  /\ UNCHANGED <<lockVars, pbVars, extVars>>

\* ------------------------------------- manual POST /api/watchlist/autobuy
\* autobuy/route.ts 36-135: item in auto_buy mode, a credential row, then
\* the attempt row and executeAutoBuy
ManualStart(i) ==
  /\ manual.pc = "idle"
  /\ manuals < MaxManual
  /\ items[i].mode = "auto_buy"
  /\ ItemUser[i] \in creds
  /\ Len(attempts) < MaxAttempts
  /\ attempts' = Append(attempts, NewAttempt(i, "manual", NoSnapshot))
  /\ manual' = [pc |-> "exec", item |-> i, attempt |-> Len(attempts) + 1, start |-> now]
  /\ manuals' = manuals + 1
  /\ UNCHANGED <<now, redis, items, creds, jobs, cron, cycles>>
  /\ UNCHANGED <<lockVars, pbVars, extVars>>

\* autobuy/route.ts 137-178
ManualReturn ==
  /\ manual.pc = "exec"
  /\ now < manual.start + WorkerMaxDuration
  /\ \E st \in EngineStatuses :
       attempts' = logResult(updateAttempt(attempts, manual.attempt, DbStatus(st),
                                           IF st = "success" THEN "" ELSE "reason"),
                             manual.attempt)
  /\ manual' = IdleManual
  /\ UNCHANGED <<now, redis, items, creds, jobs, cron, cycles, manuals>>
  /\ UNCHANGED <<lockVars, pbVars, extVars>>

\* autobuy/route.ts 7
ManualTimeout ==
  /\ manual.pc = "exec"
  /\ now >= manual.start + WorkerMaxDuration
  /\ manual' = IdleManual
  /\ UNCHANGED <<now, redis, items, creds, attempts, jobs, cron, cycles, manuals>>
  /\ UNCHANGED <<lockVars, pbVars, extVars>>

\* ------------------------------------------------------------------ time
Tick ==
  /\ now + TickLen <= MaxTime
  /\ now' = now + TickLen
  /\ redis' = Expire(redis, now')
  /\ grants' = [k \in Keys |-> IF redis'[k] = 0 THEN NoGrants ELSE grants[k]]
  /\ UNCHANGED <<items, creds, attempts, jobs, cron, cycles, manual, manuals, lockp>>
  /\ UNCHANGED <<pbVars, extVars>>

Next ==
  \/ \E c \in MainCrons : CronStart(c)
  \/ \E c \in MainCrons : CronSelect(c)
  \/ \E c \in MainCrons : CronNoItems(c)
  \/ \E c \in MainCrons : CronFatal(c)
  \/ \E c \in MainCrons : CronItemLock(c)
  \/ \E c \in MainCrons : CronResolve(c)
  \/ \E c \in MainCrons : CronBuyLock(c)
  \/ \E c \in MainCrons : CronTrigger(c)
  \/ \E c \in MainCrons : CronFinish(c)
  \/ \E c \in MainCrons : CronTimeout(c)
  \/ \E j \in 1..MaxAttempts : WorkerDeliver(j)
  \/ \E j \in 1..MaxAttempts : WorkerDecryptFail(j)
  \/ \E j \in 1..MaxAttempts : WorkerExecReturn(j)
  \/ \E j \in 1..MaxAttempts : WorkerRespond(j)
  \/ \E j \in 1..MaxAttempts : WorkerTimeout(j)
  \/ \E i \in Items : ManualStart(i)
  \/ ManualReturn
  \/ ManualTimeout
  \/ Tick

Spec == Init /\ [][Next]_vars

\* ------------------------------------------- the single-item checks
\* the stock check gives a snapshot: the row is updated (the stock_check or
\* stock_found event is not counted in `activity`)
Checked(i, fetched) ==
  /\ items' = [items EXCEPT ![i] =
        [@ EXCEPT !.last_checked_at = now,
                  !.last_status = IF fetched.in_stock THEN "in_stock" ELSE "out_of_stock",
                  !.last_price = fetched.price]]
  /\ activity' = [activity EXCEPT !.checks = @ + 1]

\* the stock check throws: the catch block inserts an error event
CheckFailed(i) ==
  /\ UNCHANGED items
  /\ activity' = [activity EXCEPT !.checks = @ + 1, !.errors[i] = @ + 1, !.failed[i] = @ + 1]

\* the row is stamped although the check threw
ManualCheck_stampOnError(i) ==
  /\ activity.checks < MaxChecks
  /\ \E fetched \in Snapshots \cup {NoSnapshot} :
       IF fetched = NoSnapshot
         THEN /\ items' = [items EXCEPT ![i] = [@ EXCEPT !.last_checked_at = now]]
              /\ activity' = [activity EXCEPT !.checks = @ + 1, !.errors[i] = @ + 1,
                                               !.failed[i] = @ + 1]
         ELSE Checked(i, fetched)
  /\ UNCHANGED <<now, redis, creds, attempts, jobs, cron, cycles, manual, manuals>>
  /\ UNCHANGED <<lockVars, pbVars, acctVars, quotaVars>>
  /\ UNCHANGED <<dueCheck, replay, resolver, call, fair, pool, dedup>>

\* POST /api/watchlist/check (watchlist/check/route.ts 29-87): resolve, then
\* update and log; a throw of checkTargetStock skips both and logs an error
ManualCheck(i) ==
  /\ activity.checks < MaxChecks
  /\ \E fetched \in Snapshots \cup {NoSnapshot} :
       IF fetched = NoSnapshot THEN CheckFailed(i) ELSE Checked(i, fetched)
  /\ UNCHANGED <<now, redis, creds, attempts, jobs, cron, cycles, manual, manuals>>
  /\ UNCHANGED <<lockVars, pbVars, acctVars, quotaVars>>
  /\ UNCHANGED <<dueCheck, replay, resolver, call, fair, pool, dedup>>

\* handleStockCheck of the worker-callback webhook (autofill/route.ts
\* 241-339): fetch the page and parse it, then update and log; a throw skips
\* the update and the catch block logs an error
handleStockCheck(i) ==
  /\ activity.checks < MaxChecks
  /\ \E fetched \in Snapshots \cup {NoSnapshot} :
       IF fetched = NoSnapshot THEN CheckFailed(i) ELSE Checked(i, fetched)
  /\ UNCHANGED <<now, redis, creds, attempts, jobs, cron, cycles, manual, manuals>>
  /\ UNCHANGED <<lockVars, pbVars, acctVars, quotaVars>>
  /\ UNCHANGED <<dueCheck, replay, resolver, call, fair, pool, dedup>>

\* the three paths that resolve stock, side by side
NextCheck ==
  \/ \E c \in MainCrons : CronStart(c)
  \/ \E c \in MainCrons : CronSelect(c)
  \/ \E c \in MainCrons : CronNoItems(c)
  \/ \E c \in MainCrons : CronFatal(c)
  \/ \E c \in MainCrons : CronItemLock(c)
  \/ \E c \in MainCrons : CronResolve(c)
  \/ \E c \in MainCrons : CronBuyLock(c)
  \/ \E c \in MainCrons : CronTrigger(c)
  \/ \E c \in MainCrons : CronFinish(c)
  \/ \E c \in MainCrons : CronTimeout(c)
  \/ \E i \in Items : ManualCheck(i)
  \/ \E i \in Items : handleStockCheck(i)
  \/ Tick

SpecCheck == Init /\ [][NextCheck]_vars

\* a step in which the resolution of item i fails: in the cron cycle the
\* item's iteration records an error while resolving; elsewhere the check of
\* the item throws
ResolutionFails(i) ==
  \/ \E c \in Crons : /\ cron[c].pc = "resolve" /\ CurItem(c) = i
                       /\ cron'[c].errors > cron[c].errors
  \/ activity'.failed[i] > activity.failed[i]

\* C39: a step in which the resolution of an item fails leaves the item's
\* last_status, last_price and last_checked_at as they were.
C39_FailureLeavesItemUntouched ==
  [][\A i \in Items :
       ResolutionFails(i) =>
         /\ items'[i].last_status = items[i].last_status
         /\ items'[i].last_price = items[i].last_price
         /\ items'[i].last_checked_at = items[i].last_checked_at]_vars

\* an item that was checked before has failed resolutions on the cron path
\* and on a single-item path and still shows the earlier check
C39_Witness ==
  \E i \in Items :
    /\ activity.failed[i] >= 1
    /\ \E c \in Crons : /\ cron[c].pc = "finish"
                         /\ cron[c].errors = Len(cron[c].order)
                         /\ \E k \in 1..Len(cron[c].order) : cron[c].order[k] = i
    /\ items[i].last_checked_at # NULL
    /\ items[i].last_checked_at < now

\* C40: a step in which the resolution of an item fails adds one error event
\* of that item to the activity log.
C40_FailureIsLogged ==
  [][\A i \in Items :
       ResolutionFails(i) => activity'.errors[i] = activity.errors[i] + 1]_vars

\* overlapping cron invocations, without the purchase side
NextCycle ==
  \/ \E c \in Crons : CronStart(c)
  \/ \E c \in Crons : CronSelect(c)
  \/ \E c \in Crons : CronNoItems(c)
  \/ \E c \in Crons : CronFatal(c)
  \/ \E c \in Crons : CronItemLock(c)
  \/ \E c \in Crons : CronResolve(c)
  \/ \E c \in Crons : CronBuyLock(c)
  \/ \E c \in Crons : CronTrigger(c)
  \/ \E c \in Crons : CronFinish(c)
  \/ \E c \in Crons : CronTimeout(c)
  \/ Tick

SpecCycle == Init /\ [][NextCycle]_vars

\* ------------------------------------------ acquireLock / releaseLock
\* lib/queue acquireLock: `redis.set(key, "locked", {nx, ex})`, true on "OK"
acquireLock(store, k, ttl) == SetNxEx(store, k, ttl)

\* lib/queue releaseLock: `redis.del(key)`
releaseLock(store, k) == Del(store, k)

\* a caller issues acquireLock; the command is on its way to Redis
LockCall(p, k, ttl) ==
  /\ lockp[p].pc = "idle"
  /\ lockp' = [lockp EXCEPT ![p] = [IdleLockp EXCEPT !.pc = "calling", !.key = k, !.ttl = ttl]]
  /\ UNCHANGED <<now, redis, grants>>
  /\ UNCHANGED <<schedVars, pbVars, extVars>>

\* Redis executes the command and the caller gets its answer
LockExec(p) ==
  /\ lockp[p].pc = "calling"
  /\ LET k == lockp[p].key
         r == acquireLock(redis, k, lockp[p].ttl)
     IN /\ redis' = r.store
        /\ lockp' = [lockp EXCEPT ![p] = [@ EXCEPT !.pc = "done", !.ok = r.ok,
                                                   !.held = KeyExists(redis, k)]]
        /\ grants' = [grants EXCEPT ![k] = IF r.ok THEN [@ EXCEPT !.won = @ \cup {p}]
                                                     ELSE [@ EXCEPT !.lost = @ \cup {p}]]
  /\ UNCHANGED now
  /\ UNCHANGED <<schedVars, pbVars, extVars>>

\* the holder releases the key (handleSchedulerRun's catch block)
LockRelease(p) ==
  /\ lockp[p].pc = "done"
  /\ lockp[p].ok
  /\ redis' = releaseLock(redis, lockp[p].key)
  /\ grants' = [grants EXCEPT ![lockp[p].key] = NoGrants]
  /\ lockp' = [lockp EXCEPT ![p] = IdleLockp]
  /\ UNCHANGED now
  /\ UNCHANGED <<schedVars, pbVars, extVars>>

\* the caller goes on without releasing: a refused caller skips the item, a
\* holder on the normal path leaves the key to its TTL
LockReturn(p) ==
  /\ lockp[p].pc = "done"
  /\ lockp' = [lockp EXCEPT ![p] = IdleLockp]
  /\ UNCHANGED <<now, redis, grants>>
  /\ UNCHANGED <<schedVars, pbVars, extVars>>

NextLock ==
  \/ \E p \in LockProcs, k \in TestKeys, ttl \in LockTtls : LockCall(p, k, ttl)
  \/ \E p \in LockProcs : LockExec(p)
  \/ \E p \in LockProcs : LockRelease(p)
  \/ \E p \in LockProcs : LockReturn(p)
  \/ Tick

SpecLock == Init /\ [][NextLock]_vars

\* C5: acquiring a key that is present returns false, acquiring an absent key
\* returns true, the call never waits for the key, and of all the calls
\* answered since a key was last absent exactly one was granted.
C5_AtomicSetIfAbsent ==
  /\ \A p \in LockProcs : lockp[p].pc = "done" => (lockp[p].ok <=> ~lockp[p].held)
  /\ \A p \in LockProcs : lockp[p].pc = "calling" => ENABLED LockExec(p)
  /\ \A k \in TestKeys :
       /\ Cardinality(grants[k].won) <= 1
       /\ grants[k].won \cup grants[k].lost # {} => Cardinality(grants[k].won) = 1
       /\ KeyExists(redis, k) <=> grants[k].won # {}

\* three calls on one key have been answered: one granted, two refused
C5_Witness ==
  \E k \in TestKeys :
    /\ Cardinality(grants[k].won) = 1
    /\ Cardinality(grants[k].lost) = 2
    /\ \A p \in grants[k].lost : lockp[p].pc = "done" /\ lockp[p].held /\ ~lockp[p].ok

\* ------------------------------------------------- purchase-side claims
\* running executeAutoBuy calls for an item: workers and the manual request
LiveWorkers(i) == {j \in 1..Len(jobs) : jobs[j].item = i /\ jobs[j].state = "exec" /\ WorkerAlive(j)}
LiveManual(i) ==
  IF manual.pc = "exec" /\ manual.item = i /\ now < manual.start + WorkerMaxDuration THEN 1 ELSE 0
LiveExecutions(i) == Cardinality(LiveWorkers(i)) + LiveManual(i)

\* C1: at most one purchase execution is live for a watch item at any time.
C1_OneLiveExecutionPerItem == \A i \in Items : LiveExecutions(i) <= 1

\* C2: executeAutoBuy is run at most once for a job, however often the job
\* is delivered.
C2_JobExecutedAtMostOnce == \A j \in 1..Len(jobs) : jobs[j].execs <= 1

\* C3: a scheduler pass that resolved an in-stock snapshot priced above the
\* item's ceiling creates no purchase attempt and dispatches no job.
OverCeiling(a) ==
  /\ attempts[a].src = "cron"
  /\ ItemMaxPrice[attempts[a].item] # 0
  /\ attempts[a].in_stock
  /\ attempts[a].price > ItemMaxPrice[attempts[a].item]
C3_NoAttemptAboveCeiling ==
  /\ \A a \in 1..Len(attempts) : ~OverCeiling(a)
  /\ \A j \in 1..Len(jobs) : ~OverCeiling(jobs[j].attempt)

\* C4: two cron invocations never run their item loop at the same time.
InItemLoop(c) == CronAlive(c) /\ cron[c].pc \in {"itemlock", "resolve", "buylock", "trigger"}
C4_CyclesNeverOverlap == Cardinality({c \in Crons : InItemLoop(c)}) <= 1

\* C8: a purchase attempt whose status is success, failed or cancelled keeps
\* that status in every later step.
C8_TerminalStatusIsFinal ==
  [][\A a \in 1..Len(attempts) :
       attempts[a].status \in Terminal => attempts'[a].status = attempts[a].status]_vars

\* C9: a purchase attempt is still detected only while something is left that
\* will settle it (its job is queued or running, or its manual request is
\* running); once nothing is left its outcome is success, carted, or failed
\* with a reason.
AttemptPending(a) ==
  \/ \E j \in 1..Len(jobs) : jobs[j].attempt = a /\ jobs[j].state \in {"queued", "exec", "log"}
  \/ manual.pc = "exec" /\ manual.attempt = a
Surfaced(a) ==
  \/ attempts[a].status \in {"success", "carted"}
  \/ attempts[a].status = "failed" /\ attempts[a].reason # ""
C9_EveryAttemptSurfaces == \A a \in 1..Len(attempts) : AttemptPending(a) \/ Surfaced(a)

\* C10: when the worker has finished a dispatched purchase execution and
\* answers, the item's purchase lock is absent.
C10_BuyLockReleasedAtEnd ==
  [][\A j \in 1..Len(jobs) :
       (jobs[j].state = "log" /\ jobs'[j].state = "done")
         => redis'[BuyKey(jobs[j].item)] <= now']_vars

\* C16: the status of a purchase attempt is the one named by the latest
\* activity-log row about the attempt, except while the worker stands between
\* its update of the attempt and its activity-log insert.
C16_TransitionsAreLogged ==
  \A a \in 1..Len(attempts) :
    \/ attempts[a].logged = attempts[a].status
    \/ \E j \in 1..Len(jobs) : jobs[j].attempt = a /\ jobs[j].state = "log"

\* C24: a scheduler cycle that starts after an attempt for an item has ended
\* in success inserts no further attempt and publishes no further auto-buy
\* job for that item.
C24_NoAttemptAfterSuccess ==
  [][\A i \in Items :
       (\E c \in Crons : cron[c].pc = "trigger" /\ i \in cron[c].bought)
         => /\ ~(/\ Len(attempts') > Len(attempts)
                 /\ attempts'[Len(attempts')].item = i
                 /\ attempts'[Len(attempts')].src = "cron")
            /\ ~(Len(jobs') > Len(jobs) /\ jobs'[Len(jobs')].item = i)]_vars

\* C11: when an invocation that acquired the cycle lock returns (no active
\* items, no due items, normal completion, fatal error), the cycle lock is
\* absent afterwards.
C11_CycleLockReleased ==
  [][\A c \in Crons :
       (CronAlive(c) /\ cron'[c].pc = "idle") => redis'[CycleKey] = 0]_vars

\* a cycle processed an item and returned while its lock had not yet expired
C11_Witness ==
  /\ cycles >= 1
  /\ now < CycleLockTtl
  /\ \A c \in Crons : cron[c].pc = "idle"
  /\ items["i2"].last_checked_at = now
  /\ redis[CycleKey] = 0

\* C12: a step of the item loop that records an item's error goes on to the
\* next item of the cycle's order, or to the normal end of the cycle when the
\* item was the last one.
C12_ItemErrorIsolated ==
  [][\A c \in Crons :
       (InItemLoop(c) /\ cron'[c].errors > cron[c].errors) =>
         /\ cron'[c].order = cron[c].order
         /\ \/ cron'[c].pc = "itemlock" /\ cron'[c].idx = cron[c].idx + 1
            \/ cron'[c].pc = "finish" /\ cron[c].idx = Len(cron[c].order)]_vars

\* the first item's resolution threw, the second item was processed and the
\* cycle reached its normal end
C12_Witness ==
  \E c \in Crons :
    /\ cron[c].pc = "finish"
    /\ cron[c].order = <<"i1", "i2">>
    /\ cron[c].errors = 1
    /\ items["i1"].last_checked_at = NULL
    /\ items["i2"].last_checked_at >= cron[c].start

\* C13: within a cycle the resolver answers at most once per TCIN, a
\* snapshot the cycle holds is never replaced, and every item the cycle
\* persists is written from the cycle's snapshot of its TCIN.
C13_ResolveOncePerLocator ==
  [][\A c \in Crons :
       (cron[c].pc = "resolve" /\ CronAlive(c) /\ cron'[c] # cron[c]) =>
         LET i == CurItem(c)
             t == ItemTcin[i]
             snap == cron'[c].cache[t]
         IN /\ cron'[c].resolved[t] <= 1
            /\ cron[c].cache[t] # NoSnapshot => snap = cron[c].cache[t]
            /\ items'[i] # items[i] =>
                 /\ snap # NoSnapshot
                 /\ items'[i].last_price = snap.price
                 /\ items'[i].last_status = IF snap.in_stock THEN "in_stock" ELSE "out_of_stock"]_vars

\* two items of different tenants share a TCIN and were both persisted in
\* one cycle after a single resolver call
C13_Witness ==
  \E c \in Crons :
    /\ cron[c].pc = "finish"
    /\ ItemTcin["i1"] = ItemTcin["i2"] /\ ItemUser["i1"] # ItemUser["i2"]
    /\ cron[c].resolved[ItemTcin["i1"]] = 1
    /\ \A i \in Items : items[i].last_checked_at >= cron[c].start

\* C34: while no incrementSessionCount call of a tenant stands between its
\* INCR and its EXPIRE, a counter of the tenant that exists carries an expiry
\* at most SessionTtl seconds ahead, so that it is gone 300 s after the last
\* increment.
C34_CounterDecays ==
  \A u \in Users :
    (\A d \in Dispatchers : ~(disp[d].pc = "expire" /\ ItemUser[disp[d].item] = u))
      => (sessions[u].n > 0 =>
            sessions[u].exp # 0 /\ sessions[u].exp <= now + SessionTtl)

\* C31: a step that ends the processing of an item, with a result or with an
\* error, leaves the key cron:item:<id> of that item absent, unless another
\* invocation is processing the same item at that moment.
C31_ItemLockReleased ==
  [][\A c \in Crons :
       (/\ cron[c].pc \in {"resolve", "buylock", "trigger"}
        /\ CronAlive(c)
        /\ cron'[c].pc \in {"itemlock", "finish"}
        /\ \A d \in Crons \ {c} : ~(InItemLoop(d) /\ CurItem(d) = CurItem(c)))
         => ~(redis'[ItemKey(CurItem(c))] > now')]_vars

\* ------------------------------ dispatchAutoBuy and the session counter
\* TIER_LIMITS[tier].max_concurrent_sessions
MaxConcurrentSessions(tier) ==
  CASE tier = "free" -> 0
    [] tier = "pro" -> 2
    [] OTHER -> 5

\* getActiveSessionCount: `redis.get(key)`, `count || 0`; a key whose TTL
\* has run out is absent
getActiveSessionCount(u) ==
  IF sessions[u].exp # 0 /\ sessions[u].exp <= now THEN 0 ELSE sessions[u].n

\* handleStockCheck 296-323 reaches dispatchAutoBuy for an auto_buy item
DispStart(d, i) ==
  /\ disp[d].pc = "idle"
  /\ items[i].mode = "auto_buy"
  /\ Len(attempts) < MaxDispatch
  /\ disp' = [disp EXCEPT ![d] = [IdleDisp EXCEPT !.pc = "count", !.item = i]]
  /\ UNCHANGED <<now, redis, schedVars, lockVars, pbVars, acctVars, sessions, fnVars>>

\* dispatchAutoBuy 349-363: read the tier and the counter, return at the limit
DispCount(d) ==
  /\ disp[d].pc = "count"
  /\ LET u == ItemUser[disp[d].item]
         activeSessions == getActiveSessionCount(u)
     IN disp' = [disp EXCEPT ![d] =
          IF activeSessions >= MaxConcurrentSessions(UserTier[u])
            THEN IdleDisp
            ELSE [@ EXCEPT !.pc = "insert", !.seen = activeSessions]]
  /\ UNCHANGED <<now, redis, schedVars, lockVars, pbVars, acctVars, sessions, fnVars>>

\* dispatchAutoBuy 365-389: the credential row, then the attempt row
DispInsert(d) ==
  /\ disp[d].pc = "insert"
  /\ LET i == disp[d].item
     IN IF ItemUser[i] \notin creds
          THEN /\ disp' = [disp EXCEPT ![d] = IdleDisp]
               /\ UNCHANGED attempts
          ELSE /\ Len(attempts) < MaxDispatch
               /\ attempts' = Append(attempts, NewAttempt(i, "webhook", NoSnapshot))
               /\ disp' = [disp EXCEPT ![d] = [@ EXCEPT !.pc = "incr"]]
  /\ UNCHANGED <<now, redis, items, creds, jobs, cron, cycles, manual, manuals>>
  /\ UNCHANGED <<lockVars, pbVars, acctVars, sessions, fnVars>>

\* incrementSessionCount 368: `redis.incr(key)`; an absent key counts from 0
\* and the new key has no TTL yet
DispIncr(d) ==
  /\ disp[d].pc = "incr"
  /\ LET u == ItemUser[disp[d].item]
     IN sessions' = [sessions EXCEPT ![u] =
          IF @.exp # 0 /\ @.exp <= now THEN [n |-> 1, exp |-> 0] ELSE [@ EXCEPT !.n = @ + 1]]
  /\ disp' = [disp EXCEPT ![d] = [@ EXCEPT !.pc = "expire"]]
  /\ UNCHANGED <<now, redis, schedVars, lockVars, pbVars, acctVars, fnVars>>

\* incrementSessionCount 369: `redis.expire(key, 300)`
DispExpire(d) ==
  /\ disp[d].pc = "expire"
  /\ LET u == ItemUser[disp[d].item]
     IN sessions' = [sessions EXCEPT ![u] =
          IF @.n = 0 \/ (@.exp # 0 /\ @.exp <= now) THEN NoSessions ELSE [@ EXCEPT !.exp = now + SessionTtl]]
  /\ disp' = [disp EXCEPT ![d] = [@ EXCEPT !.pc = "enqueue"]]
  /\ UNCHANGED <<now, redis, schedVars, lockVars, pbVars, acctVars, fnVars>>

\* incrementSessionCount 368-369: INCR and EXPIRE are two awaited requests.
\* The invocation can end between them: the EXPIRE request rejects and the
\* exception leaves dispatchAutoBuy (handleStockCheck's catch, 327-338,
\* answers 500), or the platform stops the function at maxDuration
DispAbort(d) ==
  /\ disp[d].pc = "expire"
  /\ disp' = [disp EXCEPT ![d] = IdleDisp]
  /\ UNCHANGED <<now, redis, schedVars, lockVars, pbVars, acctVars, sessions, fnVars>>

\* dispatchAutoBuy 394-402: enqueueAutoBuy publishes the job for the
\* external worker and the call returns
DispEnqueue(d) ==
  /\ disp[d].pc = "enqueue"
  /\ disp' = [disp EXCEPT ![d] = IdleDisp]
  /\ UNCHANGED <<now, redis, schedVars, lockVars, pbVars, acctVars, sessions, fnVars>>

NextQuota ==
  \/ \E d \in Dispatchers, i \in Items : DispStart(d, i)
  \/ \E d \in Dispatchers : DispCount(d)
  \/ \E d \in Dispatchers : DispInsert(d)
  \/ \E d \in Dispatchers : DispIncr(d)
  \/ \E d \in Dispatchers : DispExpire(d)
  \/ \E d \in Dispatchers : DispAbort(d)
  \/ \E d \in Dispatchers : DispEnqueue(d)
  \/ Tick

SpecQuota == Init /\ [][NextQuota]_vars

\* C14: the sessions counted for a tenant never exceed the tenant's
\* max_concurrent_sessions.
C14_SessionsWithinQuota ==
  \A u \in Users : getActiveSessionCount(u) <= MaxConcurrentSessions(UserTier[u])

\* --------------------------------- watchlist and credentials requests
\* TIER_LIMITS[tier].modes_allowed
ModesAllowed(tier) ==
  IF tier = "free" THEN {"notify_only"} ELSE {"notify_only", "auto_buy"}

NewItem(mode) ==
  [mode |-> mode, last_checked_at |-> NULL, last_status |-> "unknown", last_price |-> NULL]

\* POST /api/watchlist (watchlist/route.ts 344-385): the tier's modes, then
\* for auto_buy the credential row must exist
WatchlistPostCheck(u, i, mode) ==
  /\ acct[u].pc = "idle"
  /\ ItemUser[i] = u
  /\ i \notin present
  /\ mode \in ModesAllowed(UserTier[u])
  /\ mode = "auto_buy" => u \in creds
  /\ acct' = [acct EXCEPT ![u] = [pc |-> "post_insert", item |-> i, mode |-> mode]]
  /\ UNCHANGED <<now, redis, schedVars, lockVars, pbVars, present, schedule, quotaVars, fnVars>>

\* ensureScheduleExists (lib/scheduler/index.ts 15-42): creates the schedule
\* unless one with the cron destination is listed
ensureScheduleExists(exists) == TRUE

\* removeScheduleIfEmpty (lib/scheduler/index.ts 48-65): deletes the schedule
\* when the count it is given is zero
removeScheduleIfEmpty(exists, activeItemCount) ==
  IF activeItemCount > 0 THEN exists ELSE FALSE

\* POST /api/watchlist: the insert of the new row, then ensureScheduleExists
WatchlistPostInsert(u) ==
  /\ acct[u].pc = "post_insert"
  /\ present' = present \cup {acct[u].item}
  /\ schedule' = ensureScheduleExists(schedule)
  /\ items' = [items EXCEPT ![acct[u].item] = NewItem(acct[u].mode)]
  /\ acct' = [acct EXCEPT ![u] = IdleAcct]
  /\ UNCHANGED <<now, redis, creds, attempts, jobs, cron, cycles, manual, manuals>>
  /\ UNCHANGED <<lockVars, pbVars, quotaVars, fnVars>>

\* PATCH /api/watchlist (watchlist/route.ts 470-525): the tier's modes, then
\* one update of the row
WatchlistPatch(u, i, mode) ==
  /\ acct[u].pc = "idle"
  /\ ItemUser[i] = u
  /\ i \in present
  /\ mode \in ModesAllowed(UserTier[u])
  /\ items' = [items EXCEPT ![i] = [@ EXCEPT !.mode = mode]]
  /\ UNCHANGED <<now, redis, creds, attempts, jobs, cron, cycles, manual, manuals>>
  /\ UNCHANGED <<lockVars, pbVars, acctVars, quotaVars, fnVars>>

\* the count DELETE hands to removeScheduleIfEmpty (watchlist/route.ts
\* 551-556): the rows of the requesting tenant
ActiveCount(rows, u) == Cardinality({j \in rows : ItemUser[j] = u})

\* DELETE /api/watchlist (watchlist/route.ts 527-561): the row is deleted,
\* the tenant's remaining rows are counted, removeScheduleIfEmpty
WatchlistDelete(u, i) ==
  /\ acct[u].pc = "idle"
  /\ ItemUser[i] = u
  /\ i \in present
  /\ present' = present \ {i}
  /\ schedule' = removeScheduleIfEmpty(schedule, ActiveCount(present', u))
  /\ UNCHANGED <<now, redis, schedVars, lockVars, pbVars, acct, quotaVars, fnVars>>

\* POST /api/credentials (credentials/route.ts 37-88): upsert
CredentialSave(u) ==
  /\ acct[u].pc = "idle"
  /\ creds' = creds \cup {u}
  /\ UNCHANGED <<now, redis, items, attempts, jobs, cron, cycles, manual, manuals>>
  /\ UNCHANGED <<lockVars, pbVars, acctVars, quotaVars, fnVars>>

\* DELETE /api/credentials (credentials/route.ts 105-111): the tenant's
\* auto_buy items become notify_only
CredentialDeleteItems(u) ==
  /\ acct[u].pc = "idle"
  /\ items' = [i \in Items |->
                 IF i \in present /\ ItemUser[i] = u /\ items[i].mode = "auto_buy"
                   THEN [items[i] EXCEPT !.mode = "notify_only"]
                   ELSE items[i]]
  /\ acct' = [acct EXCEPT ![u] = [IdleAcct EXCEPT !.pc = "cred_delete"]]
  /\ UNCHANGED <<now, redis, creds, attempts, jobs, cron, cycles, manual, manuals>>
  /\ UNCHANGED <<lockVars, pbVars, present, schedule, quotaVars, fnVars>>

\* DELETE /api/credentials (credentials/route.ts 113-117): the row is deleted
CredentialDeleteRow(u) ==
  /\ acct[u].pc = "cred_delete"
  /\ creds' = creds \ {u}
  /\ acct' = [acct EXCEPT ![u] = IdleAcct]
  /\ UNCHANGED <<now, redis, items, attempts, jobs, cron, cycles, manual, manuals>>
  /\ UNCHANGED <<lockVars, pbVars, present, schedule, quotaVars, fnVars>>

NextAccount ==
  \/ \E u \in Users, i \in Items, m \in {"notify_only", "auto_buy"} : WatchlistPostCheck(u, i, m)
  \/ \E u \in Users : WatchlistPostInsert(u)
  \/ \E u \in Users, i \in Items, m \in {"notify_only", "auto_buy"} : WatchlistPatch(u, i, m)
  \/ \E u \in Users, i \in Items : WatchlistDelete(u, i)
  \/ \E u \in Users : CredentialSave(u)
  \/ \E u \in Users : CredentialDeleteItems(u)
  \/ \E u \in Users : CredentialDeleteRow(u)

SpecAccount == Init /\ [][NextAccount]_vars

\* C15: when no request is in progress, every existing auto_buy item belongs
\* to a tenant with a stored credential.
C15_AutoBuyHasCredential ==
  (\A u \in Users : acct[u].pc = "idle") =>
    \A i \in present : items[i].mode = "auto_buy" => ItemUser[i] \in creds

\* C21: while any watchlist item exists the stock-check cron schedule exists
\* (the schedule is removed only with the last item of the whole system).
C21_ScheduleWhileItems ==
  (\A u \in Users : acct[u].pc = "idle") => (present # {} => schedule)

\* ------------------------------------------------------- the due rule
InitDue ==
  /\ InitCore
  /\ dueCheck \in {[IdleDue EXCEPT !.pc = "input", !.last = l, !.interval = p, !.now = t] :
               l \in DueLasts, p \in DueIntervals, t \in DueNows}
  /\ replay = IdleReplay
  /\ resolver = IdleResolver
  /\ call = IdleCall
  /\ fair = IdleFair
  /\ pool = IdlePool
  /\ dedup = IdleDedup
  /\ activity = NoActivity

\* both schedulers decide whether the item is due
DueEval ==
  /\ dueCheck.pc = "input"
  /\ dueCheck' = [dueCheck EXCEPT !.pc = "done",
                         !.cron = filterDue(dueCheck.last, dueCheck.interval, dueCheck.now),
                         !.sql = get_items_due_for_polling(dueCheck.last, dueCheck.interval, dueCheck.now)]
  /\ UNCHANGED <<now, redis, schedVars, lockVars, pbVars, acctVars, quotaVars, replay, resolver, call, fair, pool, dedup, activity>>

NextDue == DueEval

SpecDue == InitDue /\ [][NextDue]_vars

\* C18: both schedulers find an item due exactly when last_checked_at is
\* null or now - last_checked_at >= poll_interval.
C18_DueRule ==
  dueCheck.pc = "done" =>
    LET rule == dueCheck.last = NULL \/ dueCheck.now - dueCheck.last >= dueCheck.interval * 1000
    IN (dueCheck.cron <=> rule) /\ (dueCheck.sql <=> rule)

\* ------------------------------------------------------ replayPlaybook
\* playbook-engine.ts 151-296: the loop over the steps; `i` counts from 0.
\* stepsLog holds, for every line pushed, the index of the step that pushed
\* it; `ran` lists the indices whose switch body was entered (history)
RECURSIVE replayFrom_logThenFail(_, _, _, _)
replayFrom_logThenFail(steps, i, stepsLog, ran) ==
  IF i >= Len(steps)
    THEN [success |-> TRUE, failedAt |-> NULL, steps_completed |-> stepsLog, ran |-> ran]
    ELSE LET step == steps[i + 1]
         IN IF step.action = "dismiss_popup" \/ step.ok \/ (step.action = "click" /\ step.optional)
              THEN replayFrom_logThenFail(steps, i + 1, Append(stepsLog, i), Append(ran, i))
              ELSE [success |-> FALSE, failedAt |-> i,
                    steps_completed |-> Append(stepsLog, i), ran |-> Append(ran, i)]

RECURSIVE replayFrom(_, _, _, _)
replayFrom(steps, i, stepsLog, ran) ==
  IF i >= Len(steps)
    THEN [success |-> TRUE, failedAt |-> NULL, steps_completed |-> stepsLog, ran |-> ran]
    ELSE LET step == steps[i + 1]
         IN CASE step.action = "dismiss_popup" ->
                   replayFrom(steps, i + 1, IF step.ok THEN Append(stepsLog, i) ELSE stepsLog,
                              Append(ran, i))
              [] step.action # "dismiss_popup" /\ step.ok ->
                   replayFrom(steps, i + 1, Append(stepsLog, i), Append(ran, i))
              [] step.action = "click" /\ step.optional /\ ~step.ok ->
                   replayFrom(steps, i + 1, Append(stepsLog, i), Append(ran, i))
              [] OTHER ->
                   [success |-> FALSE, failedAt |-> i, steps_completed |-> stepsLog,
                    ran |-> Append(ran, i)]

replayPlaybook(steps) == replayFrom(steps, 0, <<>>, <<>>)

InitReplay ==
  /\ InitCore
  /\ dueCheck = IdleDue
  /\ replay \in {[IdleReplay EXCEPT !.pc = "input", !.steps = st] :
                  st \in [1..ReplayLen -> ReplaySteps]}
  /\ resolver = IdleResolver
  /\ call = IdleCall
  /\ fair = IdleFair
  /\ pool = IdlePool
  /\ dedup = IdleDedup
  /\ activity = NoActivity

ReplayRun ==
  /\ replay.pc = "input"
  /\ replay' = [replay EXCEPT !.pc = "done", !.out = replayPlaybook(replay.steps)]
  /\ UNCHANGED <<now, redis, schedVars, lockVars, pbVars, acctVars, quotaVars, dueCheck, resolver, call, fair, pool, dedup, activity>>

NextReplay == ReplayRun

SpecReplay == InitReplay /\ [][NextReplay]_vars

\* C19: a playbook of ReplayLen = 5 steps whose first two steps pass and whose third step is
\* a non-optional click that finds no selector returns success = false,
\* failedAt = 3 and two completed steps.
C19_ReplayFailsAtStepThree ==
  (/\ replay.pc = "done"
   /\ Len(replay.steps) = ReplayLen
   /\ replay.steps[1].ok /\ replay.steps[2].ok
   /\ replay.steps[3] = [action |-> "click", optional |-> FALSE, ok |-> FALSE])
  => /\ ~replay.out.success
     /\ replay.out.failedAt = 3
     /\ Len(replay.out.steps_completed) = 2

\* C32: the steps run in index order from 0; a failed replay ran no step
\* after failedAt, failedAt is the first step with a non-optional failure,
\* and every line of steps_completed comes from a step before failedAt; a
\* successful replay ran every step.
C32_ReplayStopsAtFirstFailure ==
  replay.pc = "done" =>
    LET out == replay.out
        aborts(k) == LET step == replay.steps[k + 1]
                     IN ~step.ok /\ step.action # "dismiss_popup"
                                /\ ~(step.action = "click" /\ step.optional)
    IN /\ \A j \in 1..Len(out.ran) : out.ran[j] = j - 1
       /\ out.success => Len(out.ran) = Len(replay.steps)
       /\ ~out.success =>
            /\ Len(out.ran) = out.failedAt + 1
            /\ aborts(out.failedAt)
            /\ \A k \in 0..(out.failedAt - 1) : ~aborts(k)
            /\ \A j \in 1..Len(out.steps_completed) : out.steps_completed[j] < out.failedAt

\* a replay that skipped an optional click, logged lines and then stopped at
\* a later non-optional failure with steps left unexecuted
C32_Witness ==
  /\ replay.pc = "done"
  /\ ~replay.out.success
  /\ replay.out.failedAt = 2
  /\ replay.steps[2] = [action |-> "click", optional |-> TRUE, ok |-> FALSE]
  /\ Len(replay.out.steps_completed) = 2
  /\ Len(replay.steps) = ReplayLen

\* -------------------------------------------- the deduplication keys
\* triggerAutoBuy (cron route 259): `autobuy-${item.id}-${Math.floor(Date.now() / 60000)}`
triggerAutoBuyDedupId(item, nowMs) == <<"autobuy", item, nowMs \div (DedupBucket * 1000)>>

\* enqueueAutoBuy (context-manager.ts 316): `auto-buy-${payload.watchlist_item_id}-${Date.now()}`
enqueueAutoBuyDedupId(item, nowMs) == <<"auto-buy", item, nowMs>>

InitDedup ==
  /\ InitCore
  /\ dueCheck = IdleDue
  /\ replay = IdleReplay
  /\ resolver = IdleResolver
  /\ call = IdleCall
  /\ fair = IdleFair
  /\ pool = IdlePool
  /\ dedup \in {[IdleDedup EXCEPT !.pc = "input", !.item = i, !.t1 = a, !.t2 = b] :
                 i \in Items, a \in DedupTimes, b \in DedupTimes}
  /\ activity = NoActivity

\* both functions dispatch the item at t1 and again at t2
DedupRun ==
  /\ dedup.pc = "input"
  /\ dedup' = [dedup EXCEPT
       !.pc = "done",
       !.cron = <<triggerAutoBuyDedupId(dedup.item, dedup.t1),
                  triggerAutoBuyDedupId(dedup.item, dedup.t2)>>,
       !.queue = <<enqueueAutoBuyDedupId(dedup.item, dedup.t1),
                   enqueueAutoBuyDedupId(dedup.item, dedup.t2)>>]
  /\ UNCHANGED <<now, redis, schedVars, lockVars, pbVars, acctVars, quotaVars,
                 dueCheck, replay, resolver, call, fair, pool, activity>>

NextDedup == DedupRun

SpecDedup == InitDedup /\ [][NextDedup]_vars

\* C33: two dispatches of one item whose times fall into the same bucket of
\* DedupBucket seconds carry the same deduplication key, with triggerAutoBuy
\* and with enqueueAutoBuy.
C33_SameBucketSameKey ==
  (/\ dedup.pc = "done"
   /\ dedup.t1 \div (DedupBucket * 1000) = dedup.t2 \div (DedupBucket * 1000))
  => /\ dedup.cron[1] = dedup.cron[2]
     /\ dedup.queue[1] = dedup.queue[2]

\* ----------------------------------------------------- checkTargetStock
\* parsePdpClientResponse (stock-check.ts 137-187)
parsePdpClientResponse(answer) ==
  CASE answer = "price_only" ->
         [in_stock |-> TRUE, price |-> Price1999, raw_status |-> "Inferred: has price"]
    [] answer = "in_stock" ->
         [in_stock |-> TRUE, price |-> Price1999, raw_status |-> "Ship: IN_STOCK"]
    [] OTHER ->
         [in_stock |-> FALSE, price |-> Price1999, raw_status |-> "Ship: OUT_OF_STOCK"]

\* parseSummaryResponse and parseFulfillmentResponse (stock-check.ts 201-275)
parseFulfillmentResponse(answer) ==
  CASE answer = "price_only" ->
         [in_stock |-> FALSE, price |-> Price1999, raw_status |-> "Unknown"]
    [] answer = "in_stock" ->
         [in_stock |-> TRUE, price |-> Price1999, raw_status |-> "Ship: IN_STOCK"]
    [] OTHER ->
         [in_stock |-> FALSE, price |-> Price1999, raw_status |-> "Ship: OUT_OF_STOCK"]

\* scrapeProductPage (stock-check.ts 277-345): JSON-LD, then the meta scrape
scrapeProductPage(answer) ==
  IF answer = "ld_price_only"
    THEN [in_stock |-> FALSE, price |-> Price1999, raw_status |-> "LD: Unknown"]
    ELSE [in_stock |-> TRUE, price |-> Price1999, raw_status |-> "HTML: Possibly Available"]

\* the first answering endpoint of a list, 0 when none answers
FirstAnswer(answers, usable) ==
  LET S == {k \in 1..Len(answers) : answers[k] \in usable}
  IN IF S = {} THEN 0 ELSE CHOOSE k \in S : \A m \in S : k <= m

\* checkTargetStock (stock-check.ts 35-126); `threw` stands for the final throw
checkTargetStock(pdp, fulfillment, html) ==
  LET p == FirstAnswer(pdp, ApiAnswers \ {"fail"})
      f == FirstAnswer(fulfillment,
             {a \in ApiAnswers \ {"fail"} : parseFulfillmentResponse(a).raw_status # "Unknown"})
      productInfo == parsePdpClientResponse(pdp[p])
      fulfillmentInfo == parseFulfillmentResponse(fulfillment[f])
  IN CASE p # 0 /\ f # 0 ->
            [threw |-> FALSE,
             out |-> [in_stock |-> fulfillmentInfo.in_stock, price |-> productInfo.price,
                      raw_status |-> fulfillmentInfo.raw_status]]
       [] p = 0 /\ f # 0 -> [threw |-> FALSE, out |-> fulfillmentInfo]
       [] p # 0 /\ f = 0 ->
            IF html # "fail"
              THEN [threw |-> FALSE,
                    out |-> [in_stock |-> scrapeProductPage(html).in_stock,
                             price |-> productInfo.price,
                             raw_status |-> scrapeProductPage(html).raw_status]]
              ELSE [threw |-> FALSE,
                    out |-> [productInfo EXCEPT !.in_stock = TRUE,
                               !.raw_status = "Inferred: product has active price, no OOS signal"]]
       [] OTHER ->
            IF html # "fail"
              THEN [threw |-> FALSE, out |-> scrapeProductPage(html)]
              ELSE [threw |-> TRUE, out |-> NoStockResult]

\* parseSummary and parseFulfillment of the cron route (route.ts 308-334):
\* null only when the payload has no product
parseFulfillment(answer) ==
  CASE answer = "price_only" ->
         [in_stock |-> FALSE, price |-> Price1999, raw_status |-> "Unknown"]
    [] answer = "in_stock" ->
         [in_stock |-> TRUE, price |-> Price1999, raw_status |-> "Ship: IN_STOCK"]
    [] OTHER ->
         [in_stock |-> FALSE, price |-> Price1999, raw_status |-> "Ship: OUT_OF_STOCK"]

\* checkTargetStock of the cron route (route.ts 281-306): the summary endpoint,
\* then pdp_fulfillment_v1 with the first key; the first parsed payload is
\* returned, otherwise it throws
cronCheckTargetStock(fulfillment) ==
  LET f == FirstAnswer(SubSeq(fulfillment, 1, 2), ApiAnswers \ {"fail"})
  IN IF f # 0
       THEN [threw |-> FALSE, out |-> parseFulfillment(fulfillment[f])]
       ELSE [threw |-> TRUE, out |-> NoStockResult]

InitResolver ==
  /\ InitCore
  /\ dueCheck = IdleDue
  /\ replay = IdleReplay
  /\ resolver \in {[IdleResolver EXCEPT !.pc = "input", !.pdp = a, !.fulfillment = b, !.html = h] :
                    a \in [1..2 -> ApiAnswers], b \in [1..3 -> ApiAnswers], h \in HtmlAnswers}
  /\ call = IdleCall
  /\ fair = IdleFair
  /\ pool = IdlePool
  /\ dedup = IdleDedup
  /\ activity = NoActivity

ResolverRun ==
  /\ resolver.pc = "input"
  /\ LET r == checkTargetStock(resolver.pdp, resolver.fulfillment, resolver.html)
         c == cronCheckTargetStock(resolver.fulfillment)
     IN resolver' = [resolver EXCEPT !.pc = "done", !.threw = r.threw, !.out = r.out,
                                     !.cronThrew = c.threw, !.cronOut = c.out]
  /\ UNCHANGED <<now, redis, schedVars, lockVars, pbVars, acctVars, quotaVars, dueCheck, replay, call, fair, pool, dedup, activity>>

NextResolver == ResolverRun

SpecResolver == InitResolver /\ [][NextResolver]_vars

\* the structured sources of a call, in the order they are tried
SourceAnswers == resolver.pdp \o resolver.fulfillment

\* C20: when exactly one structured source answers, with a price and no
\* fulfillment fields, and every other source fails, the snapshot is in stock
\* at that price and its raw_status says that the availability was inferred.
C20_PriceOnlyIsInferred ==
  (/\ resolver.pc = "done"
   /\ resolver.html = "fail"
   /\ \E k \in 1..Len(SourceAnswers) :
        /\ SourceAnswers[k] = "price_only"
        /\ \A m \in 1..Len(SourceAnswers) : m # k => SourceAnswers[m] = "fail")
  => /\ ~resolver.threw
     /\ resolver.out.in_stock
     /\ resolver.out.price = Price1999
     /\ resolver.out.raw_status \in {"Inferred: has price",
                                      "Inferred: product has active price, no OOS signal"}

\* C22: for the same upstream answers the cron stock check and the manual
\* check (the library's checkTargetStock) return the same snapshot, or both
\* fail.
C22_CronMatchesManualCheck ==
  resolver.pc = "done" =>
    /\ resolver.cronThrew = resolver.threw
    /\ ~resolver.threw => resolver.cronOut = resolver.out

\* C37: a resolver, the library's or the cron route's, throws only when no
\* structured source answered and the product page gave nothing either.
C37_ThrowsOnlyWhenExhausted ==
  resolver.pc = "done" =>
    LET exhausted == /\ \A k \in 1..Len(SourceAnswers) : SourceAnswers[k] = "fail"
                     /\ resolver.html = "fail"
    IN /\ resolver.threw => exhausted
       /\ resolver.cronThrew => exhausted

\* C38: the availability of the library's snapshot comes from the highest
\* layer that gave a signal: the fulfillment status of a structured source
\* when one answered with such a status; otherwise in stock, inferred from a
\* structured source's price; otherwise what the product page scrape says.
C38_HighestLayerDecides ==
  (resolver.pc = "done" /\ ~resolver.threw) =>
    LET structured == {SourceAnswers[k] = "in_stock" : k \in
                         {m \in 1..Len(SourceAnswers) :
                            SourceAnswers[m] \in {"in_stock", "out_of_stock"}}}
        priced == \E k \in 1..Len(SourceAnswers) : SourceAnswers[k] = "price_only"
    IN CASE structured # {} -> resolver.out.in_stock \in structured
         [] structured = {} /\ priced -> resolver.out.in_stock
         [] OTHER -> resolver.out.in_stock = scrapeProductPage(resolver.html).in_stock

\* ------------------------------------------------------------ fairOrder
Block(u, n) == [k \in 1..n |-> u]

\* the tenant of each row the select returns, by position
RowUsers(layout, a, b, c) ==
  CASE layout = "grouped" ->
         Block(FairUsers[1], a) \o Block(FairUsers[2], b) \o Block(FairUsers[3], c)
    [] layout = "reversed" ->
         Block(FairUsers[3], c) \o Block(FairUsers[2], b) \o Block(FairUsers[1], a)
    [] OTHER ->
         Block(FairUsers[1], a \div 2) \o Block(FairUsers[2], b) \o Block(FairUsers[3], c)
           \o Block(FairUsers[1], a - (a \div 2))

\* last_checked_at of each row, by position
RowLasts(pattern, n) ==
  [k \in 1..n |-> CASE pattern = "oldest_first" -> k
                     [] pattern = "newest_first" -> n + 1 - k
                     [] OTHER -> IF k = n THEN NULL ELSE k]

InitFair ==
  /\ InitCore
  /\ dueCheck = IdleDue
  /\ replay = IdleReplay
  /\ resolver = IdleResolver
  /\ call = IdleCall
  /\ pool = IdlePool
  /\ dedup = IdleDedup
  /\ activity = NoActivity
  /\ fair \in {[IdleFair EXCEPT !.pc = "input", !.user_id = RowUsers(l, a, b, c),
                                 !.last = RowLasts(t, a + b + c)] :
               l \in FairLayouts, a \in FairCounts, b \in FairCounts, c \in FairCounts,
               t \in FairLasts}

\* route.ts 88-110 on the due rows 1..n
FairRun ==
  /\ fair.pc = "input"
  /\ fair' = [fair EXCEPT !.pc = "done",
                 !.order = fairOrder([k \in 1..Len(fair.user_id) |-> k], fair.user_id)]
  /\ UNCHANGED <<now, redis, schedVars, lockVars, pbVars, acctVars, quotaVars,
                 dueCheck, replay, resolver, call, pool, dedup, activity>>

NextFair == FairRun

SpecFair == InitFair /\ [][NextFair]_vars

Included(u) == Cardinality({p \in 1..Len(fair.order) : fair.user_id[fair.order[p]] = u})
DueOf(u) == Cardinality({k \in 1..Len(fair.user_id) : fair.user_id[k] = u})
FairUserSet == {FairUsers[k] : k \in 1..Len(FairUsers)}

\* C29: fairOrder holds only due rows, each at most once, as many as there are
\* due rows up to MAX_ITEMS_PER_RUN, and of two tenants A and B it holds of A
\* at least min(A's due rows, B's included rows - 1).
C29_FairOrderIsRoundRobin ==
  fair.pc = "done" =>
    /\ \A p \in 1..Len(fair.order) : fair.order[p] \in 1..Len(fair.user_id)
    /\ \A p, q \in 1..Len(fair.order) : p # q => fair.order[p] # fair.order[q]
    /\ Len(fair.order) = Min(Len(fair.user_id), MAX_ITEMS_PER_RUN)
    /\ \A A, B \in FairUserSet : Included(A) >= Min(DueOf(A), Included(B) - 1)

C29_Witness ==
  /\ fair.pc = "done"
  /\ Len(fair.user_id) > MAX_ITEMS_PER_RUN
  /\ \E A, B \in FairUserSet :
       A # B /\ Included(A) < DueOf(A) /\ Included(B) < DueOf(B) /\ Included(A) > Included(B)

Older(a, b) == b # NULL /\ (a = NULL \/ a < b)

\* C30: a row is in fairOrder only after every due row of the same tenant
\* with an older, or no, last_checked_at.
C30_OldestCheckedFirst ==
  fair.pc = "done" =>
    \A p \in 1..Len(fair.order) : \A y \in 1..Len(fair.user_id) :
      (fair.user_id[y] = fair.user_id[fair.order[p]] /\ Older(fair.last[y], fair.last[fair.order[p]]))
        => \E q \in 1..(p - 1) : fair.order[q] = y

\* ------------------------------------------- cycle after cycle, overloaded
PoolUser == Block(FairUsers[1], PoolCounts[1]) \o Block(FairUsers[2], PoolCounts[2])
PoolRows == 1..Len(PoolUser)

\* the orders in which the select (route.ts 65-69, no ORDER BY) returns the
\* rows: by id, ascending or descending
DbOrders == {[k \in PoolRows |-> k], [k \in PoolRows |-> Len(PoolUser) + 1 - k]}

\* `since` is the time since the row's last check, NULL for a row never
\* checked; times beyond the poll interval are not told apart
PoolDue(r) ==
  \/ pool.since[r] = NULL
  \/ filterDue(0, PoolInterval, pool.since[r] * 1000)

InitStarve ==
  /\ InitCore
  /\ dueCheck = IdleDue
  /\ replay = IdleReplay
  /\ resolver = IdleResolver
  /\ call = IdleCall
  /\ fair = IdleFair
  /\ pool = [IdlePool EXCEPT !.since = [r \in PoolRows |-> NULL]]
  /\ dedup = IdleDedup
  /\ activity = NoActivity

PoolFrame == UNCHANGED <<now, redis, schedVars, lockVars, pbVars, acctVars, quotaVars,
                         dueCheck, replay, resolver, call, fair, dedup, activity>>

\* route.ts 64-98: the select, the due filter, the queues of the tenants
PoolSelect(db) ==
  /\ pool.pc = "idle"
  /\ LET due == SelectSeq(db, PoolDue)
     IN pool' = [pool EXCEPT !.pc = IF due = <<>> THEN "wait" ELSE "build", !.due = due,
                             !.idx = 1, !.q = 1, !.added = FALSE, !.order = <<>>]
  /\ PoolFrame

\* route.ts 99-110: the loops that fill fairOrder, one queue at a time. The
\* model's idx counts from 1
PoolBuild ==
  /\ pool.pc = "build"
  /\ LET us == UsersOf(pool.due, PoolUser)
         full == Len(pool.order) >= Min(Len(pool.due), MAX_ITEMS_PER_RUN)
         queue == UserQueue(pool.due, us[pool.q], PoolUser)
         leave == [pool EXCEPT !.pc = "run", !.pos = 1]
     IN pool' =
          IF pool.q = 1 /\ ~pool.added /\ full
            THEN leave
          ELSE IF pool.q > Len(us)
            THEN IF ~pool.added THEN leave
                 ELSE [pool EXCEPT !.idx = @ + 1, !.q = 1, !.added = FALSE]
          ELSE IF pool.idx <= Len(queue)
            THEN IF Len(pool.order) + 1 >= MAX_ITEMS_PER_RUN
                   THEN [leave EXCEPT !.order = Append(@, queue[pool.idx])]
                   ELSE [pool EXCEPT !.order = Append(@, queue[pool.idx]),
                                     !.added = TRUE, !.q = @ + 1]
          ELSE [pool EXCEPT !.q = @ + 1]
  /\ PoolFrame

\* route.ts 122-152: the next row of fairOrder is resolved and its
\* last_checked_at written
PoolResolve ==
  /\ pool.pc = "run"
  /\ pool' = [pool EXCEPT !.since[pool.order[pool.pos]] = 0,
                          !.pos = @ + 1,
                          !.pc = IF pool.pos = Len(pool.order) THEN "wait" ELSE "run"]
  /\ PoolFrame

\* lib/scheduler/index.ts 32-36: the schedule calls the route again a minute
\* later
PoolNextMinute ==
  /\ pool.pc = "wait"
  /\ pool' = [IdlePool EXCEPT
                 !.since = [r \in PoolRows |->
                              IF pool.since[r] = NULL THEN NULL
                              ELSE Min(pool.since[r] + CycleSeconds, PoolInterval)]]
  /\ PoolFrame

NextStarve ==
  \/ \E db \in DbOrders : PoolSelect(db)
  \/ PoolBuild
  \/ PoolResolve
  \/ PoolNextMinute

\* the schedule keeps firing and a started cycle runs to its end
SpecStarve == InitStarve /\ [][NextStarve]_vars /\ WF_vars(NextStarve)

Template ==
  <<"goto", "wait", "check_text", "click", "wait", "dismiss_popup", "wait",
    "goto", "wait", "click", "wait", "check_url", "click", "wait",
    "click", "wait", "fill", "wait", "click", "wait">>

PlaceOrderStep == 15

\* replayPlaybook (playbook-engine.ts 151-293): the outcomes one step can
\* have. wait and dismiss_popup never fail; fill with an empty value is skipped
StepOutcomes(action, cvv) ==
  CASE action \in {"wait", "dismiss_popup"} -> {TRUE}
    [] action = "fill" /\ ~cvv -> {TRUE}
    [] OTHER -> BOOLEAN

InitEngine ==
  /\ InitCore
  /\ dueCheck = IdleDue
  /\ replay = IdleReplay
  /\ resolver = IdleResolver
  /\ call \in {[IdleCall EXCEPT !.pc = "login", !.playbook = p, !.cvv = c] :
               p \in BOOLEAN, c \in BOOLEAN}
  /\ fair = IdleFair
  /\ pool = IdlePool
  /\ dedup = IdleDedup
  /\ activity = NoActivity

CallFrame == UNCHANGED <<now, redis, schedVars, lockVars, pbVars, acctVars, quotaVars,
                         dueCheck, replay, resolver, fair, pool, dedup, activity>>

\* browserbase-engine.ts 569-591: the session, checkLogin, getActivePlaybook
CallLogin ==
  /\ call.pc = "login"
  /\ \E loginValid \in BOOLEAN :
       call' = IF ~loginValid
                 THEN [call EXCEPT !.pc = "done", !.result = "failed"]
                 ELSE [call EXCEPT !.pc = IF call.playbook THEN "replay" ELSE "agent",
                                   !.idx = 1]
  /\ CallFrame

\* replayPlaybook (playbook-engine.ts 151-297): one step of the loop
CallReplayStep ==
  /\ call.pc = "replay"
  /\ \E ok \in StepOutcomes(Template[call.idx], call.cvv) :
       call' = IF ~ok
                 THEN [call EXCEPT !.pc = "record_failure", !.replayed = "failed"]
                 ELSE [call EXCEPT !.idx = @ + 1,
                         !.placed = IF call.idx = PlaceOrderStep THEN @ + 1 ELSE @,
                         !.pc = IF call.idx = Len(Template) THEN "confirm" ELSE "replay",
                         !.replayed = IF call.idx = Len(Template) THEN "completed" ELSE @]
  /\ CallFrame

\* browserbase-engine.ts 602-619: a completed replay without confirmation
\* goes on to the agent flow
CallConfirm_trustReplay ==
  /\ call.pc = "confirm"
  /\ \E confirmed \in BOOLEAN :
       call' = [call EXCEPT !.pc = "done", !.confirmed = confirmed,
                            !.result = "success", !.used_playbook = TRUE]
  /\ CallFrame

\* browserbase-engine.ts 602-619: extractConfirmation after a completed replay
CallConfirm ==
  /\ call.pc = "confirm"
  /\ \E confirmed \in BOOLEAN :
       call' = IF confirmed
                 THEN [call EXCEPT !.pc = "done", !.confirmed = TRUE,
                                   !.result = "success", !.used_playbook = TRUE]
                 ELSE [call EXCEPT !.pc = "agent"]
  /\ CallFrame

\* browserbase-engine.ts 620-626: recordPlaybookFailure, then the agent
CallRecordFailure ==
  /\ call.pc = "record_failure"
  /\ call' = [call EXCEPT !.pc = "agent", !.fails = @ + 1]
  /\ CallFrame

\* runAgentFlow (browserbase-engine.ts 748-818): out of stock, price above the
\* maximum, no add-to-cart button, an exception, or on to the checkout
CallAgentCart ==
  /\ call.pc = "agent"
  /\ \E out \in {"out_of_stock", "failed", "carted"} :
       call' = IF out = "carted"
                 THEN [call EXCEPT !.pc = "checkout", !.agent = TRUE]
                 ELSE [call EXCEPT !.pc = "done", !.agent = TRUE, !.result = out]
  /\ CallFrame

\* runAgentFlow (browserbase-engine.ts 833-897): the checkout agent is told to
\* click "Place your order"; then extractConfirmation
CallAgentCheckout ==
  /\ call.pc = "checkout"
  /\ \E places \in BOOLEAN, out \in {"success", "carted", "failed"} :
       /\ call' = [call EXCEPT !.placed = IF places THEN @ + 1 ELSE @,
                               !.result = out,
                               !.pc = IF out = "success" THEN "save" ELSE "done"]
  /\ CallFrame

\* browserbase-engine.ts 636-647: recordAgentCheckout and savePlaybook
CallSave ==
  /\ call.pc = "save"
  /\ \E saved \in BOOLEAN : call' = [call EXCEPT !.pc = "done", !.saved = saved]
  /\ CallFrame

NextEngine ==
  \/ CallLogin
  \/ CallReplayStep
  \/ CallConfirm
  \/ CallRecordFailure
  \/ CallAgentCart
  \/ CallAgentCheckout
  \/ CallSave

SpecEngine == InitEngine /\ [][NextEngine]_vars

\* C23: within one executeAutoBuy call "Place your order" is clicked at most
\* once, also when the replay clicked it and the agent checkout follows.
C23_OrderPlacedAtMostOnce == call.placed <= 1

\* C25: a call that reports success through the playbook path completed the
\* replay of every step and extractConfirmation found an order confirmation.
C25_PlaybookSuccessIsConfirmed ==
  (call.pc = "done" /\ call.result = "success" /\ call.used_playbook)
    => (call.replayed = "completed" /\ call.idx = Len(Template) + 1 /\ call.confirmed)

C25_Witness ==
  call.pc = "done" /\ call.result = "success" /\ call.used_playbook /\ call.confirmed

\* ------------------------------------------------------ playbook store
IdsOf(r) == {id \in 1..Len(playbooks) : playbooks[id].retailer = r}
ActiveIds(r) == {id \in IdsOf(r) : playbooks[id].is_active}

MaxOf(S) == IF S = {} THEN 0 ELSE CHOOSE m \in S : \A x \in S : x <= m

\* getActivePlaybook (playbook-engine.ts 36-47): `.single()` yields the row
\* when exactly one matches and an error, hence null (0), otherwise
getActivePlaybook(r) ==
  IF Cardinality(ActiveIds(r)) = 1 THEN CHOOSE id \in ActiveIds(r) : TRUE ELSE 0

\* browserbase-engine.ts 589-630: look the retailer's playbook up
EngineStart(e, r) ==
  /\ eng[e].pc = "idle"
  /\ runs < MaxRuns
  /\ runs' = runs + 1
  /\ LET id == getActivePlaybook(r)
     IN eng' = [eng EXCEPT ![e] = [IdleEngine EXCEPT !.pc = IF id = 0 THEN "agent" ELSE "replay",
                                                     !.retailer = r, !.id = id]]
  /\ UNCHANGED <<playbooks, consec>>
  /\ UNCHANGED <<now, redis, schedVars, lockVars, extVars>>

\* browserbase-engine.ts 600-626: replayPlaybook and extractConfirmation
EngineReplay(e) ==
  /\ eng[e].pc = "replay"
  /\ \E out \in {"confirmed", "unconfirmed", "failed"} :
       /\ eng' = [eng EXCEPT ![e] = [@ EXCEPT !.pc = CASE out = "confirmed" -> "rs_read"
                                                       [] out = "unconfirmed" -> "agent"
                                                       [] OTHER -> "rf_read"]]
  /\ UNCHANGED <<playbooks, consec, runs>>
  /\ UNCHANGED <<now, redis, schedVars, lockVars, extVars>>

\* recordPlaybookSuccess (playbook-engine.ts 90-108): select, then update
SuccessRead(e) ==
  /\ eng[e].pc = "rs_read"
  /\ eng' = [eng EXCEPT ![e] = [@ EXCEPT !.pc = "rs_write", !.tmp = playbooks[eng[e].id].success_count]]
  /\ UNCHANGED <<playbooks, consec, runs>>
  /\ UNCHANGED <<now, redis, schedVars, lockVars, extVars>>

SuccessWrite(e) ==
  /\ eng[e].pc = "rs_write"
  /\ playbooks' = [playbooks EXCEPT ![eng[e].id] = [@ EXCEPT !.success_count = eng[e].tmp + 1]]
  /\ consec' = [consec EXCEPT ![eng[e].id] = 0]
  /\ UNCHANGED runs
  /\ eng' = [eng EXCEPT ![e] = IdleEngine]
  /\ UNCHANGED <<now, redis, schedVars, lockVars, extVars>>

\* recordPlaybookFailure (playbook-engine.ts 110-135): select, then update
FailureRead(e) ==
  /\ eng[e].pc = "rf_read"
  /\ eng' = [eng EXCEPT ![e] = [@ EXCEPT !.pc = "rf_write", !.tmp = playbooks[eng[e].id].fail_count]]
  /\ UNCHANGED <<playbooks, consec, runs>>
  /\ UNCHANGED <<now, redis, schedVars, lockVars, extVars>>

FailureWrite(e) ==
  /\ eng[e].pc = "rf_write"
  /\ LET newFailCount == eng[e].tmp + 1
     IN playbooks' = [playbooks EXCEPT ![eng[e].id] =
                        [@ EXCEPT !.fail_count = newFailCount,
                                  !.is_active = IF newFailCount >= 3 THEN FALSE ELSE @]]
  /\ consec' = [consec EXCEPT ![eng[e].id] = @ + 1]
  /\ UNCHANGED runs
  /\ eng' = [eng EXCEPT ![e] = [@ EXCEPT !.pc = "agent"]]
  /\ UNCHANGED <<now, redis, schedVars, lockVars, extVars>>

\* browserbase-engine.ts 632-647: the agent flow; on success savePlaybook
EngineAgent(e) ==
  /\ eng[e].pc = "agent"
  /\ \E success \in BOOLEAN :
       IF success
         THEN eng' = [eng EXCEPT ![e] = [@ EXCEPT !.pc = "sv_deact", !.before = IdsOf(eng[e].retailer)]]
         ELSE eng' = [eng EXCEPT ![e] = IdleEngine]
  /\ UNCHANGED <<playbooks, consec, runs>>
  /\ UNCHANGED <<now, redis, schedVars, lockVars, extVars>>

\* savePlaybook (playbook-engine.ts 55-60): deactivate the active rows
SaveDeactivate(e) ==
  /\ eng[e].pc = "sv_deact"
  /\ playbooks' = [id \in 1..Len(playbooks) |->
                     IF id \in ActiveIds(eng[e].retailer)
                       THEN [playbooks[id] EXCEPT !.is_active = FALSE]
                       ELSE playbooks[id]]
  /\ eng' = [eng EXCEPT ![e] = [@ EXCEPT !.pc = "sv_version"]]
  /\ UNCHANGED <<consec, runs>>
  /\ UNCHANGED <<now, redis, schedVars, lockVars, extVars>>

\* savePlaybook (playbook-engine.ts 62-70): highest version plus one
SaveReadVersion(e) ==
  /\ eng[e].pc = "sv_version"
  /\ eng' = [eng EXCEPT ![e] =
        [@ EXCEPT !.pc = "sv_insert",
                  !.tmp = MaxOf({playbooks[id].version : id \in IdsOf(eng[e].retailer)}) + 1]]
  /\ UNCHANGED <<playbooks, consec, runs>>
  /\ UNCHANGED <<now, redis, schedVars, lockVars, extVars>>

\* savePlaybook (playbook-engine.ts 72-87): insert the new active row
SaveInsert(e) ==
  /\ eng[e].pc = "sv_insert"
  /\ playbooks' = Append(playbooks, [retailer |-> eng[e].retailer, version |-> eng[e].tmp,
                                     is_active |-> TRUE, success_count |-> 1, fail_count |-> 0])
  /\ eng' = [eng EXCEPT ![e] = [@ EXCEPT !.pc = "saved", !.id = Len(playbooks) + 1]]
  /\ UNCHANGED <<consec, runs>>
  /\ UNCHANGED <<now, redis, schedVars, lockVars, extVars>>

\* browserbase-engine.ts 641-647: back in executeAutoBuy, which returns
EngineReturn(e) ==
  /\ eng[e].pc = "saved"
  /\ eng' = [eng EXCEPT ![e] = IdleEngine]
  /\ UNCHANGED <<playbooks, consec, runs>>
  /\ UNCHANGED <<now, redis, schedVars, lockVars, extVars>>

NextPlaybook ==
  \/ \E e \in Engines, r \in Retailers : EngineStart(e, r)
  \/ \E e \in Engines : EngineReplay(e)
  \/ \E e \in Engines : SuccessRead(e)
  \/ \E e \in Engines : SuccessWrite(e)
  \/ \E e \in Engines : FailureRead(e)
  \/ \E e \in Engines : FailureWrite(e)
  \/ \E e \in Engines : EngineAgent(e)
  \/ \E e \in Engines : SaveDeactivate(e)
  \/ \E e \in Engines : SaveReadVersion(e)
  \/ \E e \in Engines : SaveInsert(e)
  \/ \E e \in Engines : EngineReturn(e)

SpecPlaybook == Init /\ [][NextPlaybook]_vars

\* C6: every retailer has at most one active playbook, and when a
\* savePlaybook call has completed, every playbook the retailer had before
\* the call is inactive.
C6_OneActivePlaybook ==
  /\ \A r \in Retailers : Cardinality(ActiveIds(r)) <= 1
  /\ \A e \in Engines : eng[e].pc = "saved" => \A id \in eng[e].before : ~playbooks[id].is_active

\* C7: a playbook for which three failures in a row have been recorded is
\* inactive.
C7_ThreeFailuresDeactivate ==
  \A id \in 1..Len(playbooks) : consec[id] >= 3 => ~playbooks[id].is_active

\* C17: of two playbooks of one retailer the one saved later has the strictly
\* greater version.
C17_VersionsIncrease ==
  \A r \in Retailers : \A a, b \in IdsOf(r) :
    a < b => playbooks[a].version < playbooks[b].version

\* C26: every replay failure adds exactly one to the fail_count of the
\* playbook that was replayed and the call goes on to the agent flow instead
\* of returning.
C26_FailureCountedOnce ==
  [][\A e \in Engines :
       (eng[e].pc \in {"rf_read", "rf_write"} /\ eng'[e].pc \notin {"rf_read", "rf_write"})
         => /\ eng'[e].pc = "agent"
            /\ playbooks'[eng[e].id].fail_count = playbooks[eng[e].id].fail_count + 1]_vars

\* C27: when the savePlaybook of a successful agent run completes, the saved
\* row is the retailer's only active playbook and the one getActivePlaybook
\* gives the next call.
C27_SavedPlaybookIsTheActiveOne ==
  [][\A e \in Engines :
       (eng[e].pc = "sv_insert" /\ eng'[e].pc = "saved")
         => /\ ActiveIds(eng[e].retailer)' = {eng'[e].id}
            /\ getActivePlaybook(eng[e].retailer)' = eng'[e].id]_vars

\* C35: every recordPlaybookSuccess call that completes leaves success_count
\* one above its value before the call's write, and every recordPlaybookFailure
\* call that completes does the same to fail_count, so that n and m completed
\* calls add exactly n and m whatever the interleaving.
C35_NoLostCounterUpdate ==
  [][\A e \in Engines :
       /\ (eng[e].pc = "rs_write" /\ eng'[e].pc # "rs_write")
            => playbooks'[eng[e].id].success_count = playbooks[eng[e].id].success_count + 1
       /\ (eng[e].pc = "rf_write" /\ eng'[e].pc # "rf_write")
            => playbooks'[eng[e].id].fail_count = playbooks[eng[e].id].fail_count + 1]_vars

\* C36: the fail_count of a playbook never decreases, a recorded success
\* leaves it as it is, and a playbook whose fail_count has reached three is
\* inactive.
C36_FailCountOnlyGrows ==
  [][\A id \in 1..Len(playbooks) :
       /\ playbooks'[id].fail_count >= playbooks[id].fail_count
       /\ (\E e \in Engines : eng[e].pc = "rs_write" /\ eng'[e].pc # "rs_write")
            => playbooks'[id].fail_count = playbooks[id].fail_count
       /\ playbooks'[id].fail_count >= 3 => ~playbooks'[id].is_active]_vars

====
